---------------------------- MODULE Spec2Model ----------------------------
(***************************************************************************)
(* A model of Multipart.ts (src/src/Multipart.ts, src/src/Component.ts):   *)
(* the multipart MIME codec.  Bytes are their numeric values, a byte       *)
(* buffer (Uint8Array) and a string are sequences of numbers.  All bytes   *)
(* are ASCII (0..127), where TextEncoder and TextDecoder map a byte to the *)
(* character with the same code and back.  The code indexes from 0, the    *)
(* sequences of TLA+ from 1: At and Slice do the shift.                    *)
(***************************************************************************)
EXTENDS Integers, Sequences, FiniteSets, TLC

(***************************************************************************)
(* Byte constants of class Multipart.                                      *)
(***************************************************************************)
COLON == 58
DASH == 45
SP == 32
HT == 9
CR == 13
LF == 10
DOUBLE_DASH == <<DASH, DASH>>
CRLF == <<CR, LF>>

\* Characters the code names by literal.
QUOTE == 34
BACKSLASH == 92
SEMICOLON == 59
EQUALS == 61

\* null / undefined of a string-valued result (no character has code -1)
NULL == <<-1>>
\* data[i] read past the end of a Uint8Array
Undefined == -1

\* "Content-Type"
CONTENT_TYPE == <<67, 111, 110, 116, 101, 110, 116, 45, 84, 121, 112, 101>>
\* "content-type"
content_type == <<99, 111, 110, 116, 101, 110, 116, 45, 116, 121, 112, 101>>
\* "; boundary="
BOUNDARY_PARAM == <<59, 32, 98, 111, 117, 110, 100, 97, 114, 121, 61>>
\* "boundary"
BOUNDARY_KEY == <<98, 111, 117, 110, 100, 97, 114, 121>>
\* "multipart/mixed", the constructor's default media type
DEFAULT_MEDIA_TYPE ==
    <<109, 117, 108, 116, 105, 112, 97, 114, 116, 47, 109, 105, 120, 101, 100>>

(***************************************************************************)
(* Uint8Array / string primitives.                                         *)
(***************************************************************************)
Min(a, b) == IF a < b THEN a ELSE b
Max(a, b) == IF a > b THEN a ELSE b

\* data[i], 0-based; undefined outside the array
At(data, i) == IF i >= 0 /\ i < Len(data) THEN data[i + 1] ELSE Undefined

\* data.slice(from, to), 0-based, end exclusive, clamped to the array
Slice(data, from, to) ==
    SubSeq(data, Max(from, 0) + 1, Min(to, Len(data)))

\* data.slice(from)
SliceFrom(data, from) == Slice(data, from, Len(data))

\* Multipart.combineArrays: the concatenation of the arrays, in order
RECURSIVE combineArrays(_)
combineArrays(arrays) ==
    IF arrays = <<>> THEN <<>>
    ELSE IF Len(arrays) = 1 THEN arrays[1]
    ELSE LET half == Len(arrays) \div 2
         IN  combineArrays(SubSeq(arrays, 1, half))
             \o combineArrays(SubSeq(arrays, half + 1, Len(arrays)))

\* String.prototype.indexOf(ch) for a single character, 0-based, -1 if absent
IndexOfFrom(s, ch, i) ==
    LET hits == {k \in i..(Len(s) - 1) : s[k + 1] = ch}
    IN  IF hits = {} THEN -1
        ELSE CHOOSE k \in hits : \A other \in hits : k <= other

\* the index of the last occurrence instead of the first
IndexOfLast(s, ch) ==
    LET hits == {k \in 0..(Len(s) - 1) : s[k + 1] = ch}
    IN  IF hits = {} THEN -1
        ELSE CHOOSE k \in hits : \A other \in hits : k >= other

IndexOf(s, ch) == IndexOfFrom(s, ch, 0)

\* White space of String.prototype.trim() within ASCII: TAB LF VT FF CR SP
IsJsWhiteSpace(c) == c \in {9, 10, 11, 12, 13, 32}

\* String.prototype.trim()
RECURSIVE TrimStart(_)
TrimStart(s) ==
    IF s # <<>> /\ IsJsWhiteSpace(Head(s)) THEN TrimStart(Tail(s)) ELSE s

RECURSIVE TrimEnd(_)
TrimEnd(s) ==
    IF s # <<>> /\ IsJsWhiteSpace(s[Len(s)])
    THEN TrimEnd(SubSeq(s, 1, Len(s) - 1)) ELSE s

Trim(s) == TrimEnd(TrimStart(s))


(***************************************************************************)
(* Results: a value, or the exception thrown.                              *)
(***************************************************************************)
\* F applied to the value of e, which is computed once
With(e, F(_)) == CHOOSE r \in {F(x) : x \in {e}} : TRUE

Ok(v) == [kind |-> "ok", val |-> v]
Err(k) == [kind |-> k, val |-> <<>>]

(***************************************************************************)
(* The Headers collection the code keeps its headers in (the platform's    *)
(* Fetch Headers class): names are case-insensitive and kept in lower      *)
(* case, entries() iterates sorted by name, a value is stored without its  *)
(* leading and trailing HTTP white space, and set/append throw a TypeError *)
(* for a name that is no token or a value holding NUL, CR or LF.  A        *)
(* Headers object is the sequence of its <<name, value>> entries in        *)
(* iteration order.                                                        *)
(***************************************************************************)
ToLowerChar(c) == IF c >= 65 /\ c <= 90 THEN c + 32 ELSE c
ToLower(s) == [i \in 1..Len(s) |-> ToLowerChar(s[i])]

IsHttpWhiteSpace(c) == c \in {HT, LF, CR, SP}

RECURSIVE StripLeft(_)
StripLeft(s) ==
    IF s # <<>> /\ IsHttpWhiteSpace(Head(s)) THEN StripLeft(Tail(s)) ELSE s

RECURSIVE StripRight(_)
StripRight(s) ==
    IF s # <<>> /\ IsHttpWhiteSpace(s[Len(s)])
    THEN StripRight(SubSeq(s, 1, Len(s) - 1)) ELSE s

NormalizeValue(s) == StripRight(StripLeft(s))

IsTokenChar(c) ==
    \/ c >= 48 /\ c <= 57
    \/ c >= 65 /\ c <= 90
    \/ c >= 97 /\ c <= 122
    \/ c \in {33, 35, 36, 37, 38, 39, 42, 43, 45, 46, 94, 95, 96, 124, 126}

HeaderNameOk(name) ==
    name # <<>> /\ \A i \in 1..Len(name) : IsTokenChar(name[i])

HeaderValueOk(value) ==
    \A i \in 1..Len(NormalizeValue(value)) :
        NormalizeValue(value)[i] \notin {0, LF, CR}

\* a < b in the order entries() sorts names by (code units, shorter first
\* on a tie)
RECURSIVE SeqLess(_, _)
SeqLess(a, b) ==
    IF b = <<>> THEN FALSE
    ELSE IF a = <<>> THEN TRUE
    ELSE IF Head(a) # Head(b) THEN Head(a) < Head(b)
    ELSE SeqLess(Tail(a), Tail(b))

HeadersHas(h, name) == \E i \in 1..Len(h) : h[i][1] = ToLower(name)

HeadersGet(h, name) ==
    IF HeadersHas(h, name)
    THEN h[CHOOSE i \in 1..Len(h) : h[i][1] = ToLower(name)][2]
    ELSE NULL

\* the entries of h with <<name, value>> put at the place of its name
HeadersPut(h, name, value) ==
    LET before == SelectSeq(h, LAMBDA e : SeqLess(e[1], name))
        after == SelectSeq(h, LAMBDA e : SeqLess(name, e[1]))
    IN  before \o <<<<name, value>>>> \o after

\* headers.set(name, value), for a name and a value that do not throw
HeadersSet(h, name, value) ==
    HeadersPut(h, ToLower(name), NormalizeValue(value))

\* headers.append(name, value): a second value of a name is joined by ", "
HeadersAppend(h, name, value) ==
    IF HeadersHas(h, name)
    THEN HeadersPut(h, ToLower(name),
                    HeadersGet(h, name) \o <<44, SP>> \o NormalizeValue(value))
    ELSE HeadersPut(h, ToLower(name), NormalizeValue(value))

(***************************************************************************)
(* Boundary validity and quoting.                                          *)
(***************************************************************************)
MAX_BOUNDARY_LENGTH == 70

IsValidBoundaryChar(char) ==
    \/ char >= 48 /\ char <= 57
    \/ (char >= 65 /\ char <= 90) \/ (char >= 97 /\ char <= 122)
    \/ char = SP
    \/ (char >= 39 /\ char <= 41)
    \/ (char >= 43 /\ char <= 47)
    \/ char = 58
    \/ char = 61
    \/ char = 63
    \/ char = 95

\* isValidBoundary with the length compared by >=
isValidBoundaryBelowLimit(boundary) ==
    IF \/ Len(boundary) < 1
       \/ Len(boundary) >= MAX_BOUNDARY_LENGTH
       \/ boundary[Len(boundary)] = SP
    THEN FALSE
    ELSE \A i \in 1..Len(boundary) : IsValidBoundaryChar(boundary[i])

isValidBoundary(boundary) ==
    IF \/ Len(boundary) < 1
       \/ Len(boundary) > MAX_BOUNDARY_LENGTH
       \/ boundary[Len(boundary)] = SP
    THEN FALSE
    ELSE \A i \in 1..Len(boundary) : IsValidBoundaryChar(boundary[i])

\* the test of boundaryShouldBeQuoted without the comma
ShouldQuoteByteNoComma(byte) ==
    \/ byte = HT
    \/ byte = SP
    \/ byte = 34
    \/ byte = 40
    \/ byte = 41
    \/ byte = 47
    \/ (byte >= COLON /\ byte <= 64)
    \/ (byte >= 91 /\ byte <= 93)
    \/ byte = 123
    \/ byte = 125

ShouldQuoteByte(byte) ==
    \/ byte = HT
    \/ byte = SP
    \/ byte = 34
    \/ byte = 40
    \/ byte = 41
    \/ byte = 44
    \/ byte = 47
    \/ (byte >= COLON /\ byte <= 64)
    \/ (byte >= 91 /\ byte <= 93)
    \/ byte = 123
    \/ byte = 125

boundaryShouldBeQuoted(boundary) ==
    \E i \in 1..Len(boundary) : ShouldQuoteByte(boundary[i])

\* boundaryString.replace(/"/g, '\\"')
EscapeQuotes(s) ==
    combineArrays([i \in 1..Len(s) |->
        IF s[i] = QUOTE THEN <<BACKSLASH, QUOTE>> ELSE <<s[i]>>])

\* the value setHeaders hands to headers.set("Content-Type", ...)
ContentTypeValue(mediaType, boundary) ==
    LET shouldQuoteBoundary == boundaryShouldBeQuoted(boundary)
        boundaryString == boundary
        b == IF shouldQuoteBoundary
             THEN <<QUOTE>> \o EscapeQuotes(boundaryString) \o <<QUOTE>>
             ELSE boundaryString
    IN  mediaType \o BOUNDARY_PARAM \o b

\* setHeaders(): whether headers.set accepts the value, and the headers
\* after it
setHeadersThrows(mediaType, boundary) ==
    ~HeaderValueOk(ContentTypeValue(mediaType, boundary))

setHeaders(headers, mediaType, boundary) ==
    HeadersSet(headers, CONTENT_TYPE, ContentTypeValue(mediaType, boundary))

(***************************************************************************)
(* Parts.  A Part is a Component (headers and a stored body) or a          *)
(* Multipart (headers, boundary, media type and parts; its body is         *)
(* computed).  Both are records of the same fields, the unused ones empty. *)
(***************************************************************************)
MkComponent(headers, body) ==
    [type |-> "Component", headers |-> headers, body |-> body,
     boundary |-> <<>>, mediaType |-> <<>>, parts |-> <<>>]

\* new Headers(init) for a list of <<name, value>> pairs: each pair is
\* appended; the TypeError of a bad name or value
RECURSIVE NewHeaders(_, _)
NewHeaders(init, headers) ==
    IF init = <<>> THEN Ok(headers)
    ELSE IF ~HeaderNameOk(Head(init)[1]) \/ ~HeaderValueOk(Head(init)[2])
    THEN Err("TypeError")
    ELSE NewHeaders(Tail(init),
                    HeadersAppend(headers, Head(init)[1], Head(init)[2]))

\* new Component(headers, body)
NewComponent(headers, body) ==
    LET h == NewHeaders(headers, <<>>)
    IN  IF h.kind # "ok" THEN h ELSE Ok(MkComponent(h.val, body))

MkMultipart(headers, boundary, mediaType, parts) ==
    [type |-> "Multipart", headers |-> headers, body |-> <<>>,
     boundary |-> boundary, mediaType |-> mediaType, parts |-> parts]

\* new Multipart(parts, boundary, mediaType): the constructor
NewMultipart(parts, boundary, mediaType) ==
    IF setHeadersThrows(mediaType, boundary) THEN Err("TypeError")
    ELSE Ok(MkMultipart(setHeaders(<<>>, mediaType, boundary),
                        boundary, mediaType, parts))

\* the header lines of bytes(): "name: value" CRLF for each entry
RECURSIVE HeaderLines(_)
HeaderLines(h) ==
    IF h = <<>> THEN <<>>
    ELSE h[1][1] \o <<COLON, SP>> \o h[1][2] \o CRLF \o HeaderLines(Tail(h))

\* the first result that is an exception, if any; else the values combined
CombineResults(rs) ==
    IF \E i \in 1..Len(rs) : rs[i].kind # "ok"
    THEN rs[CHOOSE i \in 1..Len(rs) :
              /\ rs[i].kind # "ok"
              /\ \A j \in 1..(i - 1) : rs[j].kind = "ok"]
    ELSE Ok(combineArrays([i \in 1..Len(rs) |-> rs[i].val]))

RECURSIVE PartBytes(_)
RECURSIVE MultipartBody(_)

\* get body() without the CRLF that follows the bytes of a part
MultipartBodyNoLineBreak(m) ==
    IF ~isValidBoundary(m.boundary) THEN Err("RangeError")
    ELSE CombineResults(
            [i \in 1..Len(m.parts) |->
                LET b == PartBytes(m.parts[i])
                IN  IF b.kind # "ok" THEN b
                    ELSE Ok(DOUBLE_DASH \o m.boundary \o CRLF \o b.val)]
            \o <<Ok(DOUBLE_DASH \o m.boundary \o DOUBLE_DASH \o CRLF)>>)

\* get body() with the closing delimiter written as an opening one
MultipartBodyOpenEnd(m) ==
    IF ~isValidBoundary(m.boundary) THEN Err("RangeError")
    ELSE CombineResults(
            [i \in 1..Len(m.parts) |->
                LET b == PartBytes(m.parts[i])
                IN  IF b.kind # "ok" THEN b
                    ELSE Ok(DOUBLE_DASH \o m.boundary \o CRLF
                            \o b.val \o CRLF)]
            \o <<Ok(DOUBLE_DASH \o m.boundary \o CRLF)>>)

\* get body() that leaves out a part whose bytes() throws
MultipartBodyMasking(m) ==
    IF ~isValidBoundary(m.boundary) THEN Err("RangeError")
    ELSE CombineResults(
            [i \in 1..Len(m.parts) |->
                LET b == PartBytes(m.parts[i])
                IN  IF b.kind # "ok" THEN Ok(<<>>)
                    ELSE Ok(DOUBLE_DASH \o m.boundary \o CRLF
                            \o b.val \o CRLF)]
            \o <<Ok(DOUBLE_DASH \o m.boundary \o DOUBLE_DASH \o CRLF)>>)

\* get body(): RangeError for an invalid boundary, else the delimited parts
MultipartBody(m) ==
    IF ~isValidBoundary(m.boundary) THEN Err("RangeError")
    ELSE CombineResults(
            [i \in 1..Len(m.parts) |->
                LET b == PartBytes(m.parts[i])
                IN  IF b.kind # "ok" THEN b
                    ELSE Ok(DOUBLE_DASH \o m.boundary \o CRLF
                            \o b.val \o CRLF)]
            \o <<Ok(DOUBLE_DASH \o m.boundary \o DOUBLE_DASH \o CRLF)>>)

\* Multipart.bytes(): header lines, CRLF, body
MultipartBytes(m) ==
    LET body == MultipartBody(m)
    IN  IF body.kind # "ok" THEN body
        ELSE Ok(HeaderLines(m.headers) \o CRLF \o body.val)

\* bytes() without the empty line between headers and body
ComponentBytesNoEmptyLine(p) == HeaderLines(p.headers) \o p.body

\* Component.bytes(): header lines, CRLF, body
ComponentBytes(p) == HeaderLines(p.headers) \o CRLF \o p.body

\* part.bytes() of the Part interface
PartBytes(p) ==
    IF p.type = "Multipart" THEN MultipartBytes(p) ELSE Ok(ComponentBytes(p))

\* part.body of the Part interface
PartBody(p) ==
    IF p.type = "Multipart" THEN MultipartBody(p) ELSE Ok(p.body)

(***************************************************************************)
(* Scanning.                                                               *)
(***************************************************************************)
\* whether sequence stands in data at index i (the inner loop over j)
MatchesAt(data, sequence, i) ==
    \A j \in 0..(Len(sequence) - 1) : At(data, i + j) = sequence[j + 1]

\* the outer loop with the condition i < data.length - sequence.length
FindSequenceLoopShort(data, sequence, i) ==
    With({k \in i..(Len(data) - Len(sequence) - 1) :
             MatchesAt(data, sequence, k)},
         LAMBDA hits :
           IF hits = {} THEN -1
           ELSE CHOOSE k \in hits : \A other \in hits : k <= other)

\* the outer loop of findSequenceIndex, from index i on: the first index at
\* which sequence stands, -1 when the loop runs out
FindSequenceLoop(data, sequence, i) ==
    With({k \in i..(Len(data) - Len(sequence)) :
             MatchesAt(data, sequence, k)},
         LAMBDA hits :
           IF hits = {} THEN -1
           ELSE CHOOSE k \in hits : \A other \in hits : k <= other)

\* Multipart.findSequenceIndex(data, sequence, start)
findSequenceIndex(data, sequence, start) ==
    IF start < 0 \/ start >= Len(data) THEN -1
    ELSE FindSequenceLoop(data, sequence, start)

\* The while loop of findBoundaryBounds over the bytes after the boundary:
\* the index of the terminating CRLF, -1 when the data ends first, and -2
\* when a byte that is neither SP nor HT comes before any CRLF.
RECURSIVE ScanPadding(_, _)

\* the loop that skips every byte up to the next CRLF
RECURSIVE ScanPaddingAnyByte(_, _)
ScanPaddingAnyByte(data, currentEndOfBoundaryIndex) ==
    IF ~(currentEndOfBoundaryIndex < Len(data)) THEN -1
    ELSE LET byte == At(data, currentEndOfBoundaryIndex)
         IN  IF byte = CR /\ At(data, currentEndOfBoundaryIndex + 1) = LF
             THEN currentEndOfBoundaryIndex
             ELSE ScanPaddingAnyByte(data, currentEndOfBoundaryIndex + 1)

ScanPadding(data, currentEndOfBoundaryIndex) ==
    IF ~(currentEndOfBoundaryIndex < Len(data)) THEN -1
    ELSE LET byte == At(data, currentEndOfBoundaryIndex)
         IN  IF byte = CR /\ At(data, currentEndOfBoundaryIndex + 1) = LF
             THEN currentEndOfBoundaryIndex
             ELSE IF byte = SP \/ byte = HT
             THEN ScanPadding(data, currentEndOfBoundaryIndex + 1)
             ELSE -2

\* Multipart.findBoundaryBounds(data, boundary, start): <<start, end>> of the
\* delimiter, or NULL
RECURSIVE findBoundaryBounds(_, _, _)
findBoundaryBounds(data, boundary, start) ==
    IF start >= Len(data) THEN NULL
    ELSE With(findSequenceIndex(data, CRLF \o DOUBLE_DASH \o boundary,
                                start),
         LAMBDA boundaryStartIndex :
           IF boundaryStartIndex = -1 THEN NULL
           ELSE With(ScanPadding(data,
                         boundaryStartIndex + Len(boundary) + 4),
                LAMBDA scan :
                  IF scan >= 0 THEN <<boundaryStartIndex, scan + 2>>
                  ELSE IF scan = -2
                  THEN findBoundaryBounds(data, boundary,
                                          boundaryStartIndex + 2)
                  ELSE NULL))

\* The while loop of parseBody: the byte ranges pushed to parts, from the
\* cursor start on.
RECURSIVE ParseBodyLoop(_, _, _)
ParseBodyLoop(paddedData, boundary, start) ==
    IF ~(start < Len(paddedData)) THEN <<>>
    ELSE With(findBoundaryBounds(paddedData, boundary, start),
         LAMBDA boundaryIndices :
           IF boundaryIndices = NULL THEN <<>>
           ELSE With(
             LET boundaryEnd == boundaryIndices[2]
                 closingBoundaryDelimiter == boundary \o DOUBLE_DASH
                 opening == findBoundaryBounds(paddedData, boundary,
                                               boundaryEnd + 1)
             IN  IF opening # NULL THEN opening
                 ELSE findBoundaryBounds(paddedData,
                          closingBoundaryDelimiter, boundaryEnd + 1),
             LAMBDA nextBoundaryIndices :
               IF nextBoundaryIndices = NULL THEN <<>>
               ELSE <<Slice(paddedData, boundaryIndices[2],
                            nextBoundaryIndices[1])>>
                    \o ParseBodyLoop(paddedData, boundary,
                                     nextBoundaryIndices[1])))

\* the byte ranges parseBody carves out of data
ParseBodySegments(data, boundary) ==
    With(CRLF \o data, LAMBDA paddedData :
        ParseBodyLoop(paddedData, boundary, 0))

(***************************************************************************)
(* Component.parse.                                                        *)
(***************************************************************************)
\* headersString.split("\r\n")
RECURSIVE SplitCRLF(_)
SplitCRLF(s) ==
    LET i == findSequenceIndex(s, CRLF, 0)
    IN  IF i = -1 THEN <<s>>
        ELSE <<Slice(s, 0, i)>> \o SplitCRLF(SliceFrom(s, i + 2))

\* The loop over the header lines: the Headers built from the lines, or
\* the TypeError of headers.append for a key that is no token or a value
\* holding NUL, CR or LF.
RECURSIVE ParseHeaderLines(_, _)
ParseHeaderLines(lines, headers) ==
    IF lines = <<>> THEN Ok(headers)
    ELSE LET line == Head(lines)
             colonIndex == IndexOf(line, COLON)
             key == Trim(Slice(line, 0, colonIndex))
             value == Trim(SliceFrom(line, colonIndex + 1))
         IN  IF colonIndex = -1 THEN ParseHeaderLines(Tail(lines), headers)
             ELSE IF Len(key) <= 0 THEN ParseHeaderLines(Tail(lines), headers)
             ELSE IF ~HeaderNameOk(key) \/ ~HeaderValueOk(value)
             THEN Err("TypeError")
             ELSE ParseHeaderLines(Tail(lines),
                                   HeadersAppend(headers, key, value))

\* Component.parse(data) without the case of data that begins with CRLF
ComponentParseAlwaysHeaders(data) ==
    LET headersEndIndex == findSequenceIndex(data, CRLF \o CRLF, 0) + 2
        headersBuffer == Slice(data, 0, headersEndIndex)
        body == SliceFrom(data, headersEndIndex + 2)
        headers == ParseHeaderLines(SplitCRLF(headersBuffer), <<>>)
    IN  IF headers.kind # "ok" THEN headers
        ELSE Ok(MkComponent(headers.val, body))

\* Component.parse(data)
ComponentParse(data) ==
    LET hasHeaders == ~(At(data, 0) = CR /\ At(data, 1) = LF)
        headersEndIndex ==
            IF hasHeaders THEN findSequenceIndex(data, CRLF \o CRLF, 0) + 2
            ELSE 0
        headersBuffer == Slice(data, 0, headersEndIndex)
        body == SliceFrom(data, headersEndIndex + 2)
        headers == ParseHeaderLines(SplitCRLF(headersBuffer), <<>>)
    IN  IF headers.kind # "ok" THEN headers
        ELSE Ok(MkComponent(headers.val, body))

\* parts.map(Component.parse): the first exception, or the parts
ParseSegments(segments) ==
    LET rs == [i \in 1..Len(segments) |-> ComponentParse(segments[i])]
    IN  IF \E i \in 1..Len(rs) : rs[i].kind # "ok"
        THEN Err("TypeError")
        ELSE Ok([i \in 1..Len(rs) |-> rs[i].val])

\* Multipart.parseBody(data, boundary, mediaType); NULL for no mediaType
parseBody(data, boundary, mediaType) ==
    LET parsedParts == ParseSegments(ParseBodySegments(data, boundary))
    IN  IF parsedParts.kind # "ok" THEN parsedParts
        ELSE NewMultipart(parsedParts.val, boundary,
                 IF mediaType = NULL THEN DEFAULT_MEDIA_TYPE ELSE mediaType)

(***************************************************************************)
(* Header parameters.  A Map is the sequence of its <<key, value>>         *)
(* entries.                                                                *)
(***************************************************************************)
MapHas(params, key) == \E i \in 1..Len(params) : params[i][1] = key

MapGet(params, key) ==
    IF MapHas(params, key)
    THEN params[CHOOSE i \in 1..Len(params) : params[i][1] = key][2]
    ELSE NULL

MapSet(params, key, value) ==
    IF MapHas(params, key)
    THEN [i \in 1..Len(params) |->
            IF params[i][1] = key THEN <<key, value>> ELSE params[i]]
    ELSE Append(params, <<key, value>>)

\* the state of parseHeaderParams before its loop
ParamsInit ==
    [params |-> <<>>, currentKey |-> <<>>, currentValue |-> <<>>,
     insideQuotes |-> FALSE, escaping |-> FALSE, readingKey |-> TRUE,
     valueHasBegun |-> FALSE]

\* the pair is stored under its key as it was read
ParamsFlushNoTrim(st) ==
    LET currentKey == st.currentKey
    IN  IF Len(currentKey) > 0
        THEN MapSet(IF st.readingKey THEN MapSet(st.params, currentKey, <<>>)
                    ELSE st.params,
                    currentKey, st.currentValue)
        ELSE st.params

\* the pair is stored under its trimmed key, unless that key is empty
ParamsFlush(st) ==
    LET currentKey == Trim(st.currentKey)
    IN  IF Len(currentKey) > 0
        THEN MapSet(IF st.readingKey THEN MapSet(st.params, currentKey, <<>>)
                    ELSE st.params,
                    currentKey, st.currentValue)
        ELSE st.params

\* one pass of the loop body of parseHeaderParams, for the character char
ParamsStep(st, char) ==
    IF st.escaping
    THEN [st EXCEPT !.currentValue = @ \o <<char>>, !.escaping = FALSE]
    ELSE IF char = BACKSLASH
    THEN IF ~st.readingKey THEN [st EXCEPT !.escaping = TRUE] ELSE st
    ELSE IF char = QUOTE
    THEN IF ~st.readingKey
         THEN IF st.valueHasBegun /\ ~st.insideQuotes
              THEN [st EXCEPT !.currentValue = @ \o <<char>>]
              ELSE [st EXCEPT !.insideQuotes = ~@, !.valueHasBegun = TRUE]
         ELSE [st EXCEPT !.currentKey = @ \o <<char>>]
    ELSE IF char = SEMICOLON /\ ~st.insideQuotes
    THEN [st EXCEPT !.params = ParamsFlush(st),
                    !.currentKey = <<>>, !.currentValue = <<>>,
                    !.readingKey = TRUE, !.valueHasBegun = FALSE,
                    !.insideQuotes = FALSE]
    ELSE IF char = EQUALS /\ st.readingKey /\ ~st.insideQuotes
    THEN [st EXCEPT !.readingKey = FALSE]
    ELSE IF /\ char = SP /\ ~st.readingKey
            /\ ~st.insideQuotes /\ ~st.valueHasBegun
    THEN st
    ELSE IF st.readingKey
    THEN [st EXCEPT !.currentKey = @ \o <<char>>]
    ELSE [st EXCEPT !.valueHasBegun = TRUE, !.currentValue = @ \o <<char>>]

\* the loop of parseHeaderParams over the characters input[lo..hi], in
\* order, from the state st (split in halves to keep the evaluation shallow)
RECURSIVE ParamsLoop(_, _, _, _)
ParamsLoop(st, input, lo, hi) ==
    IF lo > hi THEN st
    ELSE IF lo = hi THEN ParamsStep(st, input[lo])
    ELSE LET mid == (lo + hi) \div 2
             first == ParamsLoop(st, input, lo, mid)
         IN  \* the state after the first half is computed before the second
             IF first.escaping \in BOOLEAN
             THEN ParamsLoop(first, input, mid + 1, hi)
             ELSE first

\* Multipart.parseHeaderParams(input)
parseHeaderParams(input) ==
    ParamsFlush(ParamsLoop(ParamsInit, input, 1, Len(input)))

\* Multipart.parseContentType(contentType)
parseContentType(contentType) ==
    LET firstSemicolonIndex == IndexOf(contentType, SEMICOLON)
    IN  IF firstSemicolonIndex = -1
        THEN [mediaType |-> contentType, boundary |-> NULL]
        ELSE [mediaType |-> Slice(contentType, 0, firstSemicolonIndex),
              boundary |-> MapGet(
                  parseHeaderParams(SliceFrom(contentType,
                                              firstSemicolonIndex + 1)),
                  BOUNDARY_KEY)]

(***************************************************************************)
(* Multipart.part and Multipart.parse.                                     *)
(***************************************************************************)
\* Multipart.part(part)
MultipartPart(part) ==
    With(HeadersGet(part.headers, content_type), LAMBDA type :
        IF type = NULL THEN Err("SyntaxError")
        ELSE With(parseContentType(type), LAMBDA ct :
            IF ct.boundary = NULL THEN Err("SyntaxError")
            ELSE With(PartBytes(part), LAMBDA bytes :
                IF bytes.kind # "ok" THEN bytes
                ELSE parseBody(bytes.val, ct.boundary, ct.mediaType))))

\* Multipart.parse(data)
MultipartParse(data) ==
    With(ComponentParse(data), LAMBDA part :
        IF part.kind # "ok" THEN part ELSE MultipartPart(part.val))

(***************************************************************************)
(* The state: one Multipart instance m and the outcome of the last         *)
(* operation.  Every operation overwrites the outcome of the one before.   *)
(***************************************************************************)
VARIABLES
    m,          \* the instance: #boundary, #mediaType, headers, parts
    op,         \* the last operation
    err,        \* "ok", or the exception the last operation threw
    out,        \* the bytes the last body / bytes() returned or parse was
                \* given, or the value the last setHeaders() handed to
                \* headers.set
    parsed,     \* the Multipart the last parse / part / parseBody returned
    nested,     \* the Multipart parsed from the bytes of part nestedOf of
                \* parsed, or from the body given without its padding
    nestedOf,
    input,      \* what parseBody / part / parse is given
    start,      \* parseBody's cursor, or the start findBoundaryBounds is
                \* called with, while the call is running
    segments,   \* the byte ranges parseBody has pushed to parts, each with
                \* its bounds: [from, to, bytes]
    bounds      \* what findBoundaryBounds returned

scanVars == <<start, segments, bounds>>

vars == <<m, op, err, out, parsed, nested, nestedOf, input,
          start, segments, bounds>>

\* no scan is running
ScanIdle ==
    /\ start = 0
    /\ segments = <<>>
    /\ bounds = NULL

NoMultipart == MkMultipart(<<>>, <<>>, <<>>, <<>>)
NoInput == [kind |-> "none"]

(***************************************************************************)
(* Bounds and input sets.                                                  *)
(***************************************************************************)
\* the most parts a constructed Multipart holds
MaxParts == 2

Repeat(c, n) == [i \in 1..n |-> c]

\* boundaries a Multipart that holds parts is given: "a" "b" "a:" ""
CoreBoundaries == {<<97>>, <<98>>, <<97, 58>>, <<>>}

\* boundaries an empty Multipart is given besides: every single byte, a byte
\* after a letter and between two letters, and the lengths around the limit
WideBoundaries ==
    {<<c>> : c \in 0..127}
    \cup {<<97, c>> : c \in {HT, SP, LF, QUOTE, 33}}
    \cup {<<97, c, 98>> : c \in {HT, SP, LF, CR, QUOTE, BACKSLASH, SEMICOLON}}
    \cup {Repeat(97, n) :
            n \in (MAX_BOUNDARY_LENGTH - 1)..(MAX_BOUNDARY_LENGTH + 1)}
    \cup {Repeat(97, MAX_BOUNDARY_LENGTH - 1) \o <<SP>>}

\* "m" and "m;p"
MediaTypes == {<<109>>, <<109, SEMICOLON, 112>>}

\* the boundaries a Multipart with these parts is constructed with
BoundariesFor(parts) ==
    IF parts = <<>> THEN CoreBoundaries \cup WideBoundaries ELSE CoreBoundaries

\* the boundaries assigned through the setter: besides, "a" LF and
\* "a" LF "b"
SetterBoundaries == CoreBoundaries \cup {<<97, LF>>, <<97, LF, 98>>}

\* Components: no header and no body; "x: v" and body "b"; a body that
\* holds CRLF "--a" CRLF; "x: v" and a body that begins with "--a" CRLF;
\* a header value that begins with a vertical tab
PlainParts ==
    {MkComponent(<<>>, <<>>),
     MkComponent(<<<<<<120>>, <<118>>>>>>, <<98>>),
     MkComponent(<<>>, <<98, CR, LF, DASH, DASH, 97, CR, LF>>),
     MkComponent(<<<<<<120>>, <<118>>>>>>, <<DASH, DASH, 97, CR, LF, 122>>),
     MkComponent(<<<<<<120>>, <<11, 118>>>>>>, <<98>>)}

\* nested Multiparts: boundary "b" and two parts, boundary "a", boundary
\* "b" and a part whose header value begins with a vertical tab, an
\* invalid boundary, and boundary "b" around a Multipart of an invalid
\* boundary
NestedParts ==
    {NewMultipart(<<MkComponent(<<<<<<120>>, <<118>>>>>>, <<98>>),
                    MkComponent(<<>>, <<>>)>>, <<98>>, <<109>>).val,
     NewMultipart(<<MkComponent(<<<<<<120>>, <<118>>>>>>, <<98>>)>>,
                  <<97>>, <<109>>).val,
     NewMultipart(<<MkComponent(<<<<<<120>>, <<11, 118>>>>>>, <<98>>)>>,
                  <<98>>, <<109>>).val,
     NewMultipart(<<>>, <<>>, <<109>>).val,
     NewMultipart(<<NewMultipart(<<>>, <<>>, <<109>>).val>>,
                  <<98>>, <<109>>).val}

\* the parts that follow the first part of a constructed Multipart
TailParts ==
    {MkComponent(<<>>, <<>>), MkComponent(<<<<<<120>>, <<118>>>>>>, <<98>>)}

\* the part lists of length 0..n: any first part, then parts of TailParts
RECURSIVE PartListsUpTo(_)
PartListsUpTo(n) ==
    IF n = 0 THEN {<<>>}
    ELSE LET shorter == PartListsUpTo(n - 1)
         IN  shorter \cup
             {Append(q, x) : q \in {l \in shorter : Len(l) = n - 1},
                             x \in IF n = 1 THEN PlainParts \cup NestedParts
                                            ELSE TailParts}

PartLists == PartListsUpTo(MaxParts)

(***************************************************************************)
(* The operations of the public interface.                                 *)
(***************************************************************************)
\* new Multipart(parts, boundary, mediaType), for arguments it accepts
Init ==
    /\ \E ps \in PartLists : \E t \in MediaTypes : \E b \in BoundariesFor(ps) :
          /\ NewMultipart(ps, b, t).kind = "ok"
          /\ m = NewMultipart(ps, b, t).val
    /\ op = "new"
    /\ err = "ok"
    /\ out = ContentTypeValue(m.mediaType, m.boundary)
    /\ parsed = NoMultipart
    /\ nested = NoMultipart
    /\ nestedOf = 0
    /\ input = NoInput
    /\ ScanIdle

\* the outcome variables an operation that parses nothing leaves empty
NothingParsed ==
    /\ parsed' = NoMultipart
    /\ nested' = NoMultipart
    /\ nestedOf' = 0
    /\ input' = NoInput

\* m.boundary = b: the field is assigned, then setHeaders() runs
SetBoundary(b) ==
    /\ m' = IF setHeadersThrows(m.mediaType, b)
            THEN [m EXCEPT !.boundary = b]
            ELSE [m EXCEPT !.boundary = b,
                           !.headers = setHeaders(m.headers, m.mediaType, b)]
    /\ err' = IF setHeadersThrows(m.mediaType, b) THEN "TypeError" ELSE "ok"
    /\ op' = "setBoundary"
    /\ out' = ContentTypeValue(m.mediaType, b)
    /\ NothingParsed
    /\ UNCHANGED scanVars

\* m.mediaType = t: the field is assigned, then setHeaders() runs
SetMediaType(t) ==
    /\ m' = IF setHeadersThrows(t, m.boundary)
            THEN [m EXCEPT !.mediaType = t]
            ELSE [m EXCEPT !.mediaType = t,
                           !.headers = setHeaders(m.headers, t, m.boundary)]
    /\ err' = IF setHeadersThrows(t, m.boundary) THEN "TypeError" ELSE "ok"
    /\ op' = "setMediaType"
    /\ out' = ContentTypeValue(t, m.boundary)
    /\ NothingParsed
    /\ UNCHANGED scanVars

\* m.body
GetBody ==
    /\ op' = "body"
    /\ err' = MultipartBody(m).kind
    /\ out' = MultipartBody(m).val
    /\ NothingParsed
    /\ UNCHANGED m
    /\ UNCHANGED scanVars

\* m.bytes()
Bytes ==
    /\ op' = "bytes"
    /\ err' = MultipartBytes(m).kind
    /\ out' = MultipartBytes(m).val
    /\ NothingParsed
    /\ UNCHANGED m
    /\ UNCHANGED scanVars

\* Multipart.parse(m.bytes())
Parse ==
    /\ \E bytes \in {MultipartBytes(m)} :
          /\ bytes.kind = "ok"
          /\ out' = bytes.val
          /\ \E r \in {MultipartParse(bytes.val)} :
                /\ err' = r.kind
                /\ parsed' = IF r.kind = "ok" THEN r.val ELSE NoMultipart
    /\ op' = "parse"
    /\ nested' = NoMultipart
    /\ nestedOf' = 0
    /\ input' = NoInput
    /\ UNCHANGED m
    /\ UNCHANGED scanVars

\* Multipart.parse(parsed.parts[i].bytes()), on the result of Parse
ParseNested(i) ==
    /\ op = "parse"
    /\ err = "ok"
    /\ i \in 1..Len(parsed.parts)
    /\ \E bytes \in {ComponentBytes(parsed.parts[i])} :
       \E r \in {MultipartParse(bytes)} :
          /\ err' = r.kind
          /\ nested' = IF r.kind = "ok" THEN r.val ELSE NoMultipart
    /\ nestedOf' = i
    /\ op' = "parseNested"
    /\ UNCHANGED <<m, out, parsed, input>>
    /\ UNCHANGED scanVars

\* Multipart.parse(parsed.bytes()), on the result of a parse; the second
\* result is kept in nested
ParseAgain ==
    /\ op \in {"parse", "parseBody", "parseBuffer"}
    /\ err = "ok"
    /\ \E bytes \in {MultipartBytes(parsed)} :
       \E r \in {IF bytes.kind = "ok" THEN MultipartParse(bytes.val)
                  ELSE bytes} :
          /\ err' = r.kind
          /\ nested' = IF r.kind = "ok" THEN r.val ELSE NoMultipart
    /\ nestedOf' = 0
    /\ op' = "parseAgain"
    /\ UNCHANGED <<m, out, parsed, input>>
    /\ UNCHANGED scanVars

NextApi ==
    \/ \E b \in SetterBoundaries : SetBoundary(b)
    \/ \E t \in MediaTypes : SetMediaType(t)
    \/ GetBody
    \/ Bytes
    \/ Parse
    \/ \E i \in 1..(MaxParts + 1) : ParseNested(i)
    \/ ParseAgain

SpecApi == Init /\ [][NextApi]_vars

(***************************************************************************)
(* The references a Multipart exposes: headers is a public field, and the  *)
(* boundary getter returns the array the instance holds, which is also the *)
(* array a caller passed to the constructor or the setter.                 *)
(***************************************************************************)
\* the byte written into the boundary array: "b"
WrittenBytes == {<<98>>}

\* the header values written through m.headers: "t"
WrittenValues == {<<116>>}

\* m.boundary[i - 1] = byte[1], on the array the getter returned
WriteBoundary(i, byte) ==
    /\ i \in 1..Len(m.boundary)
    /\ m' = [m EXCEPT !.boundary[i] = byte[1]]
    /\ op' = "writeBoundary"
    /\ err' = "ok"
    /\ out' = <<>>
    /\ NothingParsed
    /\ UNCHANGED scanVars

\* m.headers.set("Content-Type", value)
WriteHeaders(value) ==
    /\ m' = [m EXCEPT !.headers = HeadersSet(m.headers, CONTENT_TYPE, value)]
    /\ op' = "writeHeaders"
    /\ err' = "ok"
    /\ out' = <<>>
    /\ NothingParsed
    /\ UNCHANGED scanVars

Next ==
    \/ NextApi
    \/ \E byte \in WrittenBytes : WriteBoundary(1, byte)
    \/ \E value \in WrittenValues : WriteHeaders(value)

Spec == Init /\ [][Next]_vars

(***************************************************************************)
(* Parsing given bytes: parseBody on a body made of a preamble, parts      *)
(* between padded delimiters and an epilogue; Multipart.parse on header    *)
(* lines and a body; Multipart.part on a Part.                             *)
(***************************************************************************)
\* the most parts of a body given to parseBody
MaxBodyParts == 2

\* the boundary of the bodies given to parseBody: "a"
ScanBoundary == <<97>>

\* the padding after a delimiter: none, or SP HT
Paddings == {<<>>, <<SP, HT>>}

\* the preambles: none, or "P" CRLF
Preambles == {<<>>, <<80, CR, LF>>}

\* the epilogues: none, "E" CRLF, "E" CRLF "--a" CRLF "F" CRLF, and
\* "E" CRLF "--a" CRLF CRLF "F" CRLF "--a" CRLF
Epilogues ==
    {<<>>, <<69, CR, LF>>,
     <<69, CR, LF, DASH, DASH, 97, CR, LF, 70, CR, LF>>,
     <<69, CR, LF, DASH, DASH, 97, CR, LF, CR, LF, 70, CR, LF,
       DASH, DASH, 97, CR, LF>>}

\* the parts of a body: body "X"; "x: v" and a body that holds CRLF "--a"
\* SP HT "q"; a body that begins with "--ab"; a body that holds CRLF
\* "--a--x"; a body that holds CRLF "--a--" CRLF
ScanParts ==
    {MkComponent(<<>>, <<88>>),
     MkComponent(<<<<<<120>>, <<118>>>>>>,
                 <<89, CR, LF, DASH, DASH, 97, SP, HT, 113, CR, LF, 87>>),
     MkComponent(<<>>, <<DASH, DASH, 97, 98, CR, LF, 86>>),
     MkComponent(<<>>, <<90, CR, LF, DASH, DASH, 97, DASH, DASH, 120>>),
     MkComponent(<<>>, <<81, CR, LF, DASH, DASH, 97, DASH, DASH, CR, LF, 82>>)}

\* the parts that follow the first part of a body
ScanTailParts ==
    {MkComponent(<<>>, <<88>>),
     MkComponent(<<<<<<120>>, <<118>>>>>>,
                 <<89, CR, LF, DASH, DASH, 97, SP, HT, 113, CR, LF, 87>>)}

\* the part lists of length 0..n of a body
RECURSIVE ScanPartListsUpTo(_)
ScanPartListsUpTo(n) ==
    IF n = 0 THEN {<<>>}
    ELSE LET shorter == ScanPartListsUpTo(n - 1)
         IN  shorter \cup
             {Append(q, x) : q \in {l \in shorter : Len(l) = n - 1},
                             x \in IF n = 1 THEN ScanParts ELSE ScanTailParts}

\* the sequences of n paddings
RECURSIVE PaddingLists(_)
PaddingLists(n) ==
    IF n = 0 THEN {<<>>}
    ELSE {Append(q, x) : q \in PaddingLists(n - 1), x \in Paddings}

\* a body: its parts, the padding of each opening delimiter and of the
\* closing one, its preamble and its epilogue
BodyInputs ==
    UNION {[kind : {"body"}, parts : {ps},
            padding : PaddingLists(Len(ps) + 1),
            preamble : Preambles, epilogue : Epilogues] :
           ps \in ScanPartListsUpTo(MaxBodyParts)}

\* the bytes of the body b, with its padding or without
RenderBody(b, padded) ==
    LET pad(i) == IF padded THEN b.padding[i] ELSE <<>>
    IN  b.preamble
        \o combineArrays([i \in 1..Len(b.parts) |->
               DOUBLE_DASH \o ScanBoundary \o pad(i) \o CRLF
               \o ComponentBytes(b.parts[i]) \o CRLF])
        \o DOUBLE_DASH \o ScanBoundary \o DOUBLE_DASH
        \o pad(Len(b.parts) + 1) \o CRLF
        \o b.epilogue

\* the most header lines of the bytes given to Multipart.parse
MaxHeaderLines == 2

\* the header lines, as <<name, value>>: "Content-Type: m; boundary=a",
\* "content-type: m", "x: v", "a b: c", "Content-Type: m; boundary="a""
DataLines ==
    {<<CONTENT_TYPE, <<109>> \o BOUNDARY_PARAM \o <<97>>>>,
     <<content_type, <<109>>>>,
     <<<<120>>, <<118>>>>,
     <<<<97, SP, 98>>, <<99>>>>,
     <<CONTENT_TYPE, <<109>> \o BOUNDARY_PARAM \o <<QUOTE, 97, QUOTE>>>>}

\* the sequences of 0..n header lines
RECURSIVE DataLineListsUpTo(_)
DataLineListsUpTo(n) ==
    IF n = 0 THEN {<<>>}
    ELSE LET shorter == DataLineListsUpTo(n - 1)
         IN  shorter \cup {Append(q, x) : q \in shorter, x \in DataLines}

\* the bodies: none, the part "X" between delimiters of "a", and a part
\* with the header line "a b: c"
DataBodies ==
    {<<>>,
     <<DASH, DASH, 97, CR, LF, CR, LF, 88, CR, LF,
       DASH, DASH, 97, DASH, DASH, CR, LF>>,
     <<DASH, DASH, 97, CR, LF, 97, SP, 98, COLON, SP, 99, CR, LF, CR, LF,
       88, CR, LF, DASH, DASH, 97, DASH, DASH, CR, LF>>}

\* the bytes given to Multipart.parse: header lines and a body
DataInputs ==
    [kind : {"data"}, lines : DataLineListsUpTo(MaxHeaderLines),
     body : DataBodies]

\* the Parts given to Multipart.part: those whose bytes() succeeds, and
\* Components with a Content-Type of the boundary "a: b" or "a", with or
\* without the header "--a: b" or "x: v", around a body of a part "X"
\* between delimiters of "a: b" or of "a", or around no body
PartInputs ==
    LET ab == <<97, COLON, SP, 98>>
        Wrapped(b) == DOUBLE_DASH \o b \o CRLF \o <<88>> \o CRLF
                      \o DOUBLE_DASH \o b \o DOUBLE_DASH \o CRLF
        types == {<<109>> \o BOUNDARY_PARAM \o <<QUOTE>> \o ab \o <<QUOTE>>,
                  <<109>> \o BOUNDARY_PARAM \o <<97>>}
        others == {<<>>, <<<<<<DASH, DASH, 97>>, <<98>>>>>>,
                   <<<<<<120>>, <<118>>>>>>}
    IN  [kind : {"part"},
         part : {p \in PlainParts \cup NestedParts :
                    PartBytes(p).kind = "ok"}
                \cup {NewComponent(<<<<CONTENT_TYPE, t>>>> \o h, body).val :
                         t \in types, h \in others,
                         body \in {Wrapped(ab), Wrapped(<<97>>), <<>>}}]

\* the bytes of the header lines, an empty line and the body
RenderData(d) ==
    combineArrays([i \in 1..Len(d.lines) |->
        d.lines[i][1] \o <<COLON, SP>> \o d.lines[i][2] \o CRLF])
    \o CRLF \o d.body

\* an input, not yet parsed
InitParse ==
    /\ input \in BodyInputs \cup DataInputs \cup PartInputs
    /\ m = NoMultipart
    /\ op = "input"
    /\ err = "ok"
    /\ out = <<>>
    /\ parsed = NoMultipart
    /\ nested = NoMultipart
    /\ nestedOf = 0
    /\ ScanIdle

\* Multipart.parseBody(data, boundary) on the bytes of the body given
ParseBody ==
    /\ op = "input"
    /\ input.kind = "body"
    /\ \E data \in {RenderBody(input, TRUE)} :
          /\ out' = data
          /\ \E r \in {parseBody(data, ScanBoundary, NULL)} :
                /\ err' = r.kind
                /\ parsed' = IF r.kind = "ok" THEN r.val ELSE NoMultipart
    /\ op' = "parseBody"
    /\ UNCHANGED <<m, nested, nestedOf, input>>
    /\ UNCHANGED scanVars

\* Multipart.parseBody(data, boundary) on the same body without padding
ParseUnpadded ==
    /\ op = "parseBody"
    /\ \E data \in {RenderBody(input, FALSE)} :
       \E r \in {parseBody(data, ScanBoundary, NULL)} :
          /\ err' = r.kind
          /\ nested' = IF r.kind = "ok" THEN r.val ELSE NoMultipart
    /\ op' = "parseUnpadded"
    /\ UNCHANGED <<m, out, parsed, nestedOf, input>>
    /\ UNCHANGED scanVars

\* Multipart.parse(data) on the bytes given
ParseData ==
    /\ op = "input"
    /\ input.kind = "data"
    /\ \E data \in {RenderData(input)} :
          /\ out' = data
          /\ \E r \in {MultipartParse(data)} :
                /\ err' = r.kind
                /\ parsed' = IF r.kind = "ok" THEN r.val ELSE NoMultipart
    /\ op' = "parse"
    /\ UNCHANGED <<m, nested, nestedOf, input>>
    /\ UNCHANGED scanVars

\* Multipart.part(part) on the Part given
PartOf ==
    /\ op = "input"
    /\ input.kind = "part"
    /\ \E r \in {MultipartPart(input.part)} :
          /\ err' = r.kind
          /\ parsed' = IF r.kind = "ok" THEN r.val ELSE NoMultipart
    /\ out' = PartBytes(input.part).val
    /\ op' = "part"
    /\ UNCHANGED <<m, nested, nestedOf, input>>
    /\ UNCHANGED scanVars

NextParse ==
    ParseBody \/ ParseUnpadded \/ ParseData \/ PartOf \/ ParseAgain

SpecParse == InitParse /\ [][NextParse]_vars

(***************************************************************************)
(* Components: construction, bytes() and Component.parse.                  *)
(***************************************************************************)
\* the most headers a Component is constructed with
MaxPartHeaders == 2

\* header names "x" "Y" "a b" and values "", "v", VT "v", "v" FF, SP "v",
\* "a:b", "v" LF
HeaderNames == {<<120>>, <<89>>, <<97, SP, 98>>}
HeaderValues ==
    {<<>>, <<118>>, <<11, 118>>, <<118, 12>>, <<SP, 118>>,
     <<97, COLON, 98>>, <<118, LF>>}

\* the lists of 0..n <<name, value>> pairs
RECURSIVE HeaderInitsUpTo(_)
HeaderInitsUpTo(n) ==
    IF n = 0 THEN {<<>>}
    ELSE LET shorter == HeaderInitsUpTo(n - 1)
         IN  shorter \cup
             {Append(q, <<k, v>>) : q \in {l \in shorter : Len(l) = n - 1},
                                    k \in HeaderNames, v \in HeaderValues}

\* the arguments of new Component: headers, and a body of none, "b",
\* CRLF, or "x: y" CRLF CRLF "z"
ComponentInputs ==
    [kind : {"component"}, headers : HeaderInitsUpTo(MaxPartHeaders),
     body : {<<>>, <<98>>, CRLF,
             <<120, COLON, SP, 121>> \o CRLF \o CRLF \o <<122>>}]

\* the arguments of a Component, or a Part
InitPart ==
    /\ input \in ComponentInputs \cup PartInputs
    /\ m = NoMultipart
    /\ op = "input"
    /\ err = "ok"
    /\ out = <<>>
    /\ parsed = NoMultipart
    /\ nested = NoMultipart
    /\ nestedOf = 0
    /\ ScanIdle

\* p = new Component(headers, body), or the Part given; p is kept in parsed
Construct ==
    /\ op = "input"
    /\ \E r \in {IF input.kind = "part" THEN Ok(input.part)
                  ELSE NewComponent(input.headers, input.body)} :
          /\ err' = r.kind
          /\ parsed' = IF r.kind = "ok" THEN r.val ELSE NoMultipart
    /\ op' = "construct"
    /\ UNCHANGED <<m, out, nested, nestedOf, input>>
    /\ UNCHANGED scanVars

\* p.bytes()
PartSerialize ==
    /\ op = "construct"
    /\ err = "ok"
    /\ \E r \in {PartBytes(parsed)} :
          /\ err' = r.kind
          /\ out' = r.val
    /\ op' = "partBytes"
    /\ UNCHANGED <<m, parsed, nested, nestedOf, input>>
    /\ UNCHANGED scanVars

\* Component.parse(p.bytes()); the Component is kept in nested
PartReparse ==
    /\ op = "partBytes"
    /\ err = "ok"
    /\ \E r \in {ComponentParse(out)} :
          /\ err' = r.kind
          /\ nested' = IF r.kind = "ok" THEN r.val ELSE NoMultipart
    /\ op' = "componentParse"
    /\ UNCHANGED <<m, out, parsed, nestedOf, input>>
    /\ UNCHANGED scanVars

SpecPart == InitPart /\ [][Construct \/ PartSerialize \/ PartReparse]_vars

(***************************************************************************)
(* The scan, step by step: one step for each iteration of parseBody's      *)
(* loop and one for each call of findBoundaryBounds, on buffers put        *)
(* together from lines and fragments of lines.                             *)
(***************************************************************************)
\* the most chunks a buffer is put together from
MaxChunks == 4

\* the greatest start findBoundaryBounds is first called with
MaxStart == 1

\* the chunks: the line "--a"; that line and the part "x: v", empty line,
\* "Y"; the line "--a--"; the line "--a" SP HT "q"; an empty line; the
\* part "@: v", empty line, "Y"; the line "--" SP HT
Chunks ==
    {<<DASH, DASH, 97>> \o CRLF,
     <<DASH, DASH, 97>> \o CRLF
        \o <<120, COLON, SP, 118>> \o CRLF \o CRLF \o <<89>> \o CRLF,
     <<DASH, DASH, 97, DASH, DASH>> \o CRLF,
     <<DASH, DASH, 97, SP, HT, 113>> \o CRLF,
     CRLF,
     <<64, COLON, SP, 118>> \o CRLF \o CRLF \o <<89>> \o CRLF,
     <<DASH, DASH, SP, HT>> \o CRLF}

\* the buffers of 0..n chunks
RECURSIVE BuffersUpTo(_)
BuffersUpTo(n) ==
    IF n = 0 THEN {<<>>}
    ELSE LET shorter == BuffersUpTo(n - 1)
         IN  shorter \cup {b \o c : b \in shorter, c \in Chunks}

\* the boundaries: "a", none, and "a" CRLF "--", whose delimiter overlaps
\* itself
BufferBoundaries == {<<97>>, <<>>, <<97, CR, LF, DASH, DASH>>}

\* the most chunks of a buffer findBoundaryBounds is called with, and of
\* a buffer whose scan is followed to its end
MaxShortChunks == 3

\* nothing is given yet
InitScan ==
    /\ input = NoInput
    /\ m = NoMultipart
    /\ op = "idle"
    /\ err = "ok"
    /\ out = <<>>
    /\ parsed = NoMultipart
    /\ nested = NoMultipart
    /\ nestedOf = 0
    /\ ScanIdle

\* the caller has a buffer and a boundary for parseBody, or a buffer, a
\* boundary and a start for findBoundaryBounds
GiveBuffer ==
    /\ op = "idle"
    /\ input' \in
          [kind : {"buffer"}, data : BuffersUpTo(MaxChunks),
           boundary : BufferBoundaries]
          \cup [kind : {"search"}, data : BuffersUpTo(MaxShortChunks),
                boundary : BufferBoundaries, start : 0..MaxStart]
    /\ op' = "input"
    /\ UNCHANGED <<m, err, out, parsed, nested, nestedOf, scanVars>>

\* the same, with a short buffer for parseBody too
GiveShortBuffer ==
    /\ op = "idle"
    /\ input' \in
          [kind : {"buffer"}, data : BuffersUpTo(MaxShortChunks),
           boundary : BufferBoundaries]
          \cup [kind : {"search"}, data : BuffersUpTo(MaxShortChunks),
                boundary : BufferBoundaries, start : 0..MaxStart]
    /\ op' = "input"
    /\ UNCHANGED <<m, err, out, parsed, nested, nestedOf, scanVars>>

\* One iteration of the loop of parseBody at the cursor start: NULL when
\* the loop ends, else <<boundaryEnd, nextBoundaryStart>>.
LoopNext(paddedData, boundary, from) ==
    IF ~(from < Len(paddedData)) THEN NULL
    ELSE With(findBoundaryBounds(paddedData, boundary, from),
         LAMBDA boundaryIndices :
           IF boundaryIndices = NULL THEN NULL
           ELSE With(
             LET opening == findBoundaryBounds(paddedData, boundary,
                                               boundaryIndices[2] + 1)
             IN  IF opening # NULL THEN opening
                 ELSE findBoundaryBounds(paddedData,
                          boundary \o DOUBLE_DASH, boundaryIndices[2] + 1),
             LAMBDA nextBoundaryIndices :
               IF nextBoundaryIndices = NULL THEN NULL
               ELSE <<boundaryIndices[2], nextBoundaryIndices[1]>>))

\* parseBody(data, boundary) is called: the CRLF is put before the data
\* and the cursor is at 0
ParseBodyEnter ==
    /\ op = "input"
    /\ input.kind = "buffer"
    /\ out' = CRLF \o input.data
    /\ start' = 0
    /\ segments' = <<>>
    /\ op' = "loop"
    /\ UNCHANGED <<m, err, parsed, nested, nestedOf, input, bounds>>

\* an iteration of the loop that pushes a byte range and moves the cursor
ParseBodyIterate ==
    /\ op = "loop"
    /\ \E next \in {LoopNext(out, input.boundary, start)} :
          /\ next # NULL
          /\ segments' = Append(segments,
                [from |-> next[1], to |-> next[2],
                 bytes |-> Slice(out, next[1], next[2])])
          /\ start' = next[2]
    /\ UNCHANGED <<m, op, err, out, parsed, nested, nestedOf, input, bounds>>

\* the loop ends
ParseBodyExit ==
    /\ op = "loop"
    /\ LoopNext(out, input.boundary, start) = NULL
    /\ op' = "exit"
    /\ UNCHANGED <<m, err, out, parsed, nested, nestedOf, input, scanVars>>

\* after the loop the byte ranges are parsed and the Multipart is made
ParseBodyReturn ==
    /\ op = "exit"
    /\ \E parsedParts \in
            {ParseSegments([i \in 1..Len(segments) |-> segments[i].bytes])} :
       \E r \in {IF parsedParts.kind # "ok" THEN parsedParts
                  ELSE NewMultipart(parsedParts.val, input.boundary,
                                    DEFAULT_MEDIA_TYPE)} :
          /\ err' = r.kind
          /\ parsed' = IF r.kind = "ok" THEN r.val ELSE NoMultipart
    /\ op' = "parseBuffer"
    /\ UNCHANGED <<m, out, nested, nestedOf, input, scanVars>>

\* the call that retries after the whole candidate instead of after its
\* CRLF
FindOnceSkipCandidate(data, boundary, from) ==
    IF from >= Len(data) THEN [retry |-> FALSE, value |-> NULL]
    ELSE With(findSequenceIndex(data, CRLF \o DOUBLE_DASH \o boundary, from),
         LAMBDA boundaryStartIndex :
           IF boundaryStartIndex = -1 THEN [retry |-> FALSE, value |-> NULL]
           ELSE With(ScanPadding(data,
                         boundaryStartIndex + Len(boundary) + 4),
                LAMBDA scan :
                  IF scan >= 0
                  THEN [retry |-> FALSE,
                        value |-> <<boundaryStartIndex, scan + 2>>]
                  ELSE IF scan = -2
                  THEN [retry |-> TRUE,
                        value |-> <<boundaryStartIndex
                                    + Len(boundary) + 4>>]
                  ELSE [retry |-> FALSE, value |-> NULL]))

\* the call that retries at the candidate itself
FindOnceSamePlace(data, boundary, from) ==
    IF from >= Len(data) THEN [retry |-> FALSE, value |-> NULL]
    ELSE With(findSequenceIndex(data, CRLF \o DOUBLE_DASH \o boundary, from),
         LAMBDA boundaryStartIndex :
           IF boundaryStartIndex = -1 THEN [retry |-> FALSE, value |-> NULL]
           ELSE With(ScanPadding(data,
                         boundaryStartIndex + Len(boundary) + 4),
                LAMBDA scan :
                  IF scan >= 0
                  THEN [retry |-> FALSE,
                        value |-> <<boundaryStartIndex, scan + 2>>]
                  ELSE IF scan = -2
                  THEN [retry |-> TRUE, value |-> <<boundaryStartIndex>>]
                  ELSE [retry |-> FALSE, value |-> NULL]))

\* One call of findBoundaryBounds(data, boundary, from) up to its return
\* or its call of itself: the value returned, or the start of the retry.
FindOnce(data, boundary, from) ==
    IF from >= Len(data) THEN [retry |-> FALSE, value |-> NULL]
    ELSE With(findSequenceIndex(data, CRLF \o DOUBLE_DASH \o boundary, from),
         LAMBDA boundaryStartIndex :
           IF boundaryStartIndex = -1 THEN [retry |-> FALSE, value |-> NULL]
           ELSE With(ScanPadding(data,
                         boundaryStartIndex + Len(boundary) + 4),
                LAMBDA scan :
                  IF scan >= 0
                  THEN [retry |-> FALSE,
                        value |-> <<boundaryStartIndex, scan + 2>>]
                  ELSE IF scan = -2
                  THEN [retry |-> TRUE,
                        value |-> <<boundaryStartIndex + 2>>]
                  ELSE [retry |-> FALSE, value |-> NULL]))

\* findBoundaryBounds(paddedData, boundary, start) is called
FindEnter ==
    /\ op = "input"
    /\ input.kind = "search"
    /\ out' = CRLF \o input.data
    /\ start' = input.start
    /\ op' = "find"
    /\ UNCHANGED <<m, err, parsed, nested, nestedOf, input, segments, bounds>>

\* the candidate is not terminated: findBoundaryBounds calls itself
FindRetry ==
    /\ op = "find"
    /\ \E r \in {FindOnce(out, input.boundary, start)} :
          /\ r.retry
          /\ start' = r.value[1]
    /\ UNCHANGED <<m, op, err, out, parsed, nested, nestedOf, input,
                   segments, bounds>>

\* findBoundaryBounds returns
FindReturn ==
    /\ op = "find"
    /\ \E r \in {FindOnce(out, input.boundary, start)} :
          /\ ~r.retry
          /\ bounds' = r.value
    /\ op' = "found"
    /\ UNCHANGED <<m, err, out, parsed, nested, nestedOf, input,
                   start, segments>>

\* the steps of a scan
ScanStep ==
    \/ ParseBodyEnter
    \/ ParseBodyIterate
    \/ ParseBodyExit
    \/ FindEnter
    \/ FindRetry
    \/ FindReturn

SpecScan ==
    /\ InitScan
    /\ [][GiveBuffer \/ ScanStep \/ ParseBodyReturn \/ ParseAgain]_vars

\* The scan of a short buffer, where a scan that can take a step takes
\* it.
SpecScanLive ==
    /\ InitScan
    /\ [][GiveShortBuffer \/ ScanStep \/ ParseBodyReturn]_vars
    /\ WF_vars(GiveShortBuffer \/ ScanStep)

(***************************************************************************)
(* FormData: Multipart.formData(formData) and multipart.formData().  A     *)
(* FormData object is the sequence of its entries in the order of          *)
(* entries(); an entry is a name with a string, or a name with a File (its *)
(* bytes, file name and media type).                                       *)
(***************************************************************************)
\* "content-disposition", the name "Content-Disposition" as Headers keeps it
content_disposition ==
    <<99, 111, 110, 116, 101, 110, 116, 45,
      100, 105, 115, 112, 111, 115, 105, 116, 105, 111, 110>>
\* "form-data"
FORM_DATA_KEY == <<102, 111, 114, 109, 45, 100, 97, 116, 97>>
\* "name"
NAME_KEY == <<110, 97, 109, 101>>
\* "filename"
FILENAME_KEY == <<102, 105, 108, 101, 110, 97, 109, 101>>
\* form-data; name="
FORM_DATA_NAME == FORM_DATA_KEY \o <<SEMICOLON, SP>> \o NAME_KEY \o <<61, 34>>
\* "; filename="
FILENAME_PARAM == <<34, SEMICOLON, SP>> \o FILENAME_KEY \o <<61, 34>>
\* "multipart/form-data"
FORM_DATA_MEDIA_TYPE ==
    <<109, 117, 108, 116, 105, 112, 97, 114, 116, 47>> \o FORM_DATA_KEY

\* Multipart.parseContentDisposition(contentDisposition)
parseContentDisposition(contentDisposition) ==
    With(parseHeaderParams(contentDisposition), LAMBDA params :
        [formData |-> MapHas(params, FORM_DATA_KEY),
         name |-> MapGet(params, NAME_KEY),
         filename |-> MapGet(params, FILENAME_KEY)])

\* the type a File keeps of the type it is constructed with: none for
\* undefined or a type with a character outside U+0020..U+007E, else the
\* type in lower case
BlobType(type) ==
    IF type = NULL THEN <<>>
    ELSE IF \E i \in 1..Len(type) : type[i] < 32 \/ type[i] > 126 THEN <<>>
    ELSE ToLower(type)

\* the entry formData.append(name, value) adds for a string
TextEntry(name, value) ==
    [name |-> name, file |-> FALSE, value |-> value,
     filename |-> NULL, type |-> NULL]

\* the entry formData.append(name, new File([bytes], filename, {type}))
\* adds
FileEntry(name, bytes, filename, type) ==
    [name |-> name, file |-> TRUE, value |-> bytes,
     filename |-> filename, type |-> BlobType(type)]

\* the loop of formData() over the parts, from the entries formData
RECURSIVE FormDataLoop(_, _)
FormDataLoop(parts, formData) ==
    IF parts = <<>> THEN Ok(formData)
    ELSE With(Head(parts), LAMBDA part :
        IF ~HeadersHas(part.headers, content_disposition)
        THEN FormDataLoop(Tail(parts), formData)
        ELSE With(parseContentDisposition(
                      HeadersGet(part.headers, content_disposition)),
                  LAMBDA params :
            IF ~params.formData \/ params.name = NULL
            THEN FormDataLoop(Tail(parts), formData)
            ELSE With(PartBody(part), LAMBDA body :
                IF body.kind # "ok" THEN body
                ELSE IF params.filename # NULL
                THEN FormDataLoop(Tail(parts), Append(formData,
                         FileEntry(params.name, body.val, params.filename,
                                   HeadersGet(part.headers, content_type))))
                ELSE FormDataLoop(Tail(parts), Append(formData,
                         TextEntry(params.name, body.val))))))

\* multipart.formData()
InstanceFormData(multipart) == FormDataLoop(multipart.parts, <<>>)

\* Component.blob(blob), which Component.file(file) returns
ComponentBlob(blob) ==
    NewComponent(IF Len(blob.type) > 0
                 THEN <<<<content_type, blob.type>>>> ELSE <<>>,
                 blob.value)

\* the loop of Multipart.formData(formData) over the entries, from parts
RECURSIVE StaticFormDataLoop(_, _)
StaticFormDataLoop(entries, parts) ==
    IF entries = <<>> THEN Ok(parts)
    ELSE With(Head(entries), LAMBDA entry :
        IF ~entry.file
        THEN With(NewComponent(
                      <<<<content_disposition,
                          FORM_DATA_NAME \o entry.name \o <<QUOTE>>>>>>,
                      entry.value),
                  LAMBDA part :
                 IF part.kind # "ok" THEN part
                 ELSE StaticFormDataLoop(Tail(entries),
                                         Append(parts, part.val)))
        ELSE With(ComponentBlob(entry), LAMBDA part :
                 IF part.kind # "ok" THEN part
                 ELSE With(FORM_DATA_NAME \o entry.name \o FILENAME_PARAM
                               \o entry.filename \o <<QUOTE>>,
                           LAMBDA value :
                     IF ~HeaderValueOk(value) THEN Err("TypeError")
                     ELSE StaticFormDataLoop(Tail(entries),
                              Append(parts,
                                  [part.val EXCEPT !.headers =
                                      HeadersSet(@, content_disposition,
                                                 value)])))))

\* Multipart.formData(formData, boundary)
StaticFormData(formData, boundary) ==
    With(StaticFormDataLoop(formData, <<>>), LAMBDA parts :
        IF parts.kind # "ok" THEN parts
        ELSE NewMultipart(parts.val, boundary, FORM_DATA_MEDIA_TYPE))

\* the most entries of a FormData that is converted
MaxEntries == 2
\* the most parts of a Multipart whose formData() is taken
MaxFormParts == 2

\* the entries of a FormData: a name of "a", "", a"b, a\b, "a" LF with a
\* string of "v", "", or with a file of the bytes "Y", the name "f" or f"
\* and the media type "t/x" or none
FormEntries ==
    LET FormNames == {<<97>>, <<>>, <<97, QUOTE, 98>>,
                      <<97, BACKSLASH, 98>>, <<97, LF>>}
        FormValues == {<<118>>, <<>>}
        FormFileNames == {<<102>>, <<102, QUOTE>>}
        FormFileTypes == {<<>>, <<116, 47, 120>>}
        FormFileBytes == {<<89>>}
    IN  {TextEntry(n, v) : n \in FormNames, v \in FormValues}
        \cup {FileEntry(e[1], e[2], e[3], e[4]) :
                e \in FormNames \X FormFileBytes \X FormFileNames
                      \X FormFileTypes}

RECURSIVE SeqsUpTo(_, _)
SeqsUpTo(S, n) ==
    IF n = 0 THEN {<<>>}
    ELSE LET shorter == SeqsUpTo(S, n - 1)
         IN  shorter \cup {Append(s, x) : s \in shorter, x \in S}

FormDatas == SeqsUpTo(FormEntries, MaxEntries)

\* boundaries formData(formData, boundary) and the constructor are given:
\* "a", ""
FormBoundaries == {<<97>>, <<>>}

\* values of the Content-Disposition header of a part:
\*   form-data; name="a"        form-data; name=""
\*   form-data; name="a"; filename="f"
\*   form-data; name=""; filename="f"
\*   form-data                  form-data; name
\*   attachment; name="a"
DispositionValues ==
    {FORM_DATA_NAME \o <<97, QUOTE>>,
     FORM_DATA_NAME \o <<QUOTE>>,
     FORM_DATA_NAME \o <<97>> \o FILENAME_PARAM \o <<102, QUOTE>>,
     FORM_DATA_NAME \o FILENAME_PARAM \o <<102, QUOTE>>,
     FORM_DATA_KEY,
     FORM_DATA_KEY \o <<SEMICOLON, SP>> \o NAME_KEY,
     <<97, 116, 116, 97, 99, 104, 109, 101, 110, 116, SEMICOLON, SP>>
         \o NAME_KEY \o <<61, QUOTE, 97, QUOTE>>}

\* the lists of parts new Component(headers, "Y"), the headers a
\* Content-Disposition or none, and a Content-Type "T/X" or none
FormPartLists ==
    LET FormPartHeaders ==
            {d \o t : d \in {<<>>} \cup {<<<<content_disposition, v>>>> :
                                            v \in DispositionValues},
                      t \in {<<>>, <<<<content_type, <<84, 47, 88>>>>>>}}
        FormParts == {NewComponent(h, <<89>>).val : h \in FormPartHeaders}
    IN  SeqsUpTo(FormParts, MaxFormParts)

\* the caller has a FormData and a boundary
GiveFormData ==
    /\ op = "idle"
    /\ \E fd \in FormDatas : \E b \in FormBoundaries :
          input' = [kind |-> "formData", formData |-> fd, boundary |-> b]
    /\ op' = "input"
    /\ UNCHANGED <<m, err, out, parsed, nested, nestedOf>>
    /\ UNCHANGED scanVars

\* new Multipart(parts, boundary, "multipart/form-data")
ConstructForm ==
    /\ op = "idle"
    /\ \E ps \in FormPartLists : \E b \in FormBoundaries :
          \E r \in {NewMultipart(ps, b, FORM_DATA_MEDIA_TYPE)} :
             /\ r.kind = "ok"
             /\ m' = r.val
    /\ input' = [kind |-> "parts"]
    /\ op' = "new"
    /\ UNCHANGED <<err, out, parsed, nested, nestedOf>>
    /\ UNCHANGED scanVars

\* Multipart.formData(input.formData, input.boundary)
CallStaticFormData ==
    /\ op = "input"
    /\ input.kind = "formData"
    /\ \E r \in {StaticFormData(input.formData, input.boundary)} :
          /\ err' = r.kind
          /\ m' = IF r.kind = "ok" THEN r.val ELSE m
    /\ op' = "staticFormData"
    /\ UNCHANGED <<out, parsed, nested, nestedOf, input>>
    /\ UNCHANGED scanVars

\* m.formData()
CallFormData ==
    /\ op \in {"new", "staticFormData"}
    /\ err = "ok"
    /\ \E r \in {InstanceFormData(m)} :
          /\ err' = r.kind
          /\ out' = r.val
    /\ op' = "formData"
    /\ UNCHANGED <<m, parsed, nested, nestedOf, input>>
    /\ UNCHANGED scanVars

SpecForm ==
    /\ InitScan
    /\ [][\/ GiveFormData
          \/ ConstructForm
          \/ CallStaticFormData
          \/ CallFormData]_vars

(***************************************************************************)
(* The helpers called on their own: findSequenceIndex, parseHeaderParams   *)
(* and Component.parse, each on an argument drawn from a small set.        *)
(***************************************************************************)
\* the most bytes of the byte array findSequenceIndex searches
MaxHaystack == 4

\* Multipart.findSequenceIndex(data, sequence, start): data and sequence
\* of the bytes "a" and "b", sequence up to one byte longer than the
\* longest data, start from -1 to one past the longest data
CallFindSequenceIndex ==
    /\ op = "idle"
    /\ \E data \in SeqsUpTo({97, 98}, MaxHaystack) :
       \E sequence \in SeqsUpTo({97, 98}, MaxHaystack + 1) :
       \E from \in -1..(MaxHaystack + 1) :
          /\ input' = [kind |-> "find", data |-> data,
                       sequence |-> sequence, start |-> from]
          /\ out' = findSequenceIndex(data, sequence, from)
    /\ op' = "findSequenceIndex"
    /\ UNCHANGED <<m, err, parsed, nested, nestedOf>>
    /\ UNCHANGED scanVars

\* the most characters of a string parseHeaderParams is given, after the
\* "a=" some of the strings begin with
MaxParamChars == 4

\* Multipart.parseHeaderParams(input) is entered: the state before the
\* loop.  The input is a string of the characters a = ; " \ and space,
\* alone or after "a=".
ParamsEnter ==
    /\ op = "idle"
    /\ \E s \in SeqsUpTo({97, EQUALS, SEMICOLON, QUOTE, BACKSLASH, SP},
                         MaxParamChars) :
       \E prefix \in {<<>>, <<97, EQUALS>>} :
          input' = [kind |-> "params", s |-> prefix \o s]
    /\ out' = ParamsInit
    /\ start' = 0
    /\ op' = "params"
    /\ UNCHANGED <<m, err, parsed, nested, nestedOf, segments, bounds>>

\* one pass of the loop, for the next character of the input
ParamsChar ==
    /\ op = "params"
    /\ start < Len(input.s)
    /\ out' = ParamsStep(out, input.s[start + 1])
    /\ start' = start + 1
    /\ UNCHANGED <<m, op, err, parsed, nested, nestedOf, input, segments,
                   bounds>>

\* the end of the input: the last pair is stored and the map returned
\* (last is the state the loop ended in)
ParamsReturn ==
    /\ op = "params"
    /\ start = Len(input.s)
    /\ out' = [last |-> out, params |-> ParamsFlush(out)]
    /\ op' = "parseHeaderParams"
    /\ UNCHANGED <<m, err, parsed, nested, nestedOf, input>>
    /\ UNCHANGED scanVars

\* the most chunks the data given to Component.parse is put together from
MaxDataChunks == 4

\* Component.parse(data), the data put together of the chunks CRLF, "b",
\* "x:w", and the lines "x: v", "k", ": v", "@: v" and " y : z " with
\* their CRLF
CallComponentParse ==
    /\ op = "idle"
    /\ \E chunks \in SeqsUpTo({CRLF, <<98>>, <<120, COLON, 119>>,
                                <<120, COLON, SP, 118>> \o CRLF,
                                <<107>> \o CRLF,
                                <<COLON, SP, 118>> \o CRLF,
                                <<64, COLON, SP, 118>> \o CRLF,
                                <<SP, 121, SP, COLON, SP, 122, SP>> \o CRLF},
                               MaxDataChunks) :
          \E data \in {combineArrays(chunks)} :
             /\ input' = [kind |-> "data", data |-> data]
             /\ out' = ComponentParse(data)
    /\ op' = "Component.parse"
    /\ UNCHANGED <<m, err, parsed, nested, nestedOf>>
    /\ UNCHANGED scanVars

SpecHelpers ==
    /\ InitScan
    /\ [][\/ CallFindSequenceIndex
          \/ ParamsEnter
          \/ ParamsChar
          \/ ParamsReturn
          \/ CallComponentParse]_vars

(***************************************************************************)
(* What the specification says, written from its text.                     *)
(***************************************************************************)
\* DIGIT / ALPHA / ' ( ) + _ , - . / : = ? space
BoundaryClass ==
    (48..57) \cup (65..90) \cup (97..122)
    \cup {39, 40, 41, 43, 95, 44, 45, 46, 47, 58, 61, 63, 32}

\* the boundary rule: 1 to 70 bytes of the class, the last one no space
RuleValid(b) ==
    /\ Len(b) >= 1
    /\ Len(b) <= 70
    /\ b[Len(b)] # 32
    /\ \A i \in 1..Len(b) : b[i] \in BoundaryClass

\* the bytes that make a boundary quoted: tab, space, " ( ) , / : to @,
\* [ to ], { and }
QuotedClass ==
    {9, 32, 34, 40, 41, 44, 47} \cup (58..64) \cup (91..93) \cup {123, 125}

\* the boundary with a backslash before every double quote
RECURSIVE Escaped(_)
Escaped(b) ==
    IF b = <<>> THEN <<>>
    ELSE (IF Head(b) = 34 THEN <<92, 34>> ELSE <<Head(b)>>) \o Escaped(Tail(b))

\* mediaType + "; boundary=" + token-or-quoted boundary
DerivedContentType(mediaType, b) ==
    mediaType \o <<59, 32, 98, 111, 117, 110, 100, 97, 114, 121, 61>> \o
    (IF \E i \in 1..Len(b) : b[i] \in QuotedClass
     THEN <<34>> \o Escaped(b) \o <<34>>
     ELSE b)

\* whether sequence occurs in data
Contains(data, sequence) ==
    \E k \in 0..(Len(data) - Len(sequence)) :
        SubSeq(data, k + 1, k + Len(sequence)) = sequence

\* CRLF "--" boundary
DelimiterOf(b) == <<13, 10, 45, 45>> \o b

\* whether some boundary in the tree of p violates the rule
RECURSIVE AnyInvalidBoundary(_)
AnyInvalidBoundary(p) ==
    /\ p.type = "Multipart"
    /\ \/ ~RuleValid(p.boundary)
       \/ \E i \in 1..Len(p.parts) : AnyInvalidBoundary(p.parts[i])

\* whether no header value of p begins or ends with white space
TrimmedValues(p) ==
    \A i \in 1..Len(p.headers) : Trim(p.headers[i][2]) = p.headers[i][2]

\* whether no part of mp holds, serialized, CRLF "--" and mp's boundary
NoCollision(mp) ==
    \A i \in 1..Len(mp.parts) :
        ~Contains(PartBytes(mp.parts[i]).val, DelimiterOf(mp.boundary))

\* whether the parts got are the parts given: the same headers and bodies
SameParts(got, given) ==
    /\ Len(got) = Len(given)
    /\ \A j \in 1..Len(given) :
          /\ got[j].headers = given[j].headers
          /\ got[j].body = PartBody(given[j]).val

(***************************************************************************)
(* C1: the round trip of a Multipart.                                      *)
(***************************************************************************)
\* C1 as stated: for every Multipart built with a valid boundary and with
\* parts whose headers and bodies hold no CRLF "--" boundary,
\* Multipart.parse(m.bytes()).bytes() is byte-identical to m.bytes().
RoundTripAsStated ==
    (/\ op = "parse"
     /\ RuleValid(m.boundary)
     /\ \A i \in 1..Len(m.parts) :
           /\ ~Contains(HeaderLines(m.parts[i].headers),
                        DelimiterOf(m.boundary))
           /\ ~Contains(PartBody(m.parts[i]).val, DelimiterOf(m.boundary)))
    => /\ err = "ok"
       /\ MultipartBytes(parsed) = Ok(out)

\* C1 amended: for every Multipart whose bytes() succeeds, whose media type
\* holds no ";", whose header values and whose parts' header values neither
\* begin nor end with white space, and none of whose parts holds, serialized,
\* CRLF "--" boundary, Multipart.parse(m.bytes()).bytes() is byte-identical
\* to m.bytes().
RoundTrip ==
    (/\ op = "parse"
     /\ \A i \in 1..Len(m.mediaType) : m.mediaType[i] # 59
     /\ TrimmedValues(m)
     /\ \A i \in 1..Len(m.parts) : TrimmedValues(m.parts[i])
     /\ NoCollision(m))
    => /\ err = "ok"
       /\ MultipartBytes(parsed) = Ok(out)

\* a Multipart of two parts, one of them a nested Multipart, and a boundary
\* that is quoted in the header, made the round trip
RoundTripWitness ==
    /\ op = "parse"
    /\ err = "ok"
    /\ Len(m.parts) = 2
    /\ m.parts[1].type = "Multipart"
    /\ m.boundary = <<97, 58>>
    /\ NoCollision(m)
    /\ MultipartBytes(parsed) = Ok(out)

(***************************************************************************)
(* C2: the validity error of body and bytes().                             *)
(***************************************************************************)
\* C2 as stated: body and bytes() raise RangeError exactly when the current
\* boundary violates the rule.
ValidityErrorAsStated ==
    op \in {"body", "bytes"}
    => (err = "RangeError" <=> ~RuleValid(m.boundary))

\* C2 amended: body and bytes() of a Multipart of Components and Multiparts
\* raise RangeError exactly when the boundary of the Multipart, or of a
\* Multipart nested in it at any depth, violates the rule; otherwise they
\* return.
ValidityError ==
    op \in {"body", "bytes"}
    => /\ err \in {"ok", "RangeError"}
       /\ err = "RangeError" <=> AnyInvalidBoundary(m)

\* bytes() raised RangeError for a boundary of 71 bytes of the class
ValidityErrorWitness ==
    /\ op = "bytes"
    /\ err = "RangeError"
    /\ Len(m.boundary) = 71
    /\ \A i \in 1..Len(m.boundary) : m.boundary[i] \in BoundaryClass

(***************************************************************************)
(* C3: the Content-Type header after construction and assignments.         *)
(***************************************************************************)
\* C3: after any sequence of construction and assignments through the
\* boundary and mediaType accessors, headers["Content-Type"] equals the
\* value derived from the current mediaType and the current boundary.
HeaderDerived ==
    HeadersGet(m.headers, content_type)
        = DerivedContentType(m.mediaType, m.boundary)

IsNested(i) == i \in 1..Len(m.parts) /\ m.parts[i].type = "Multipart"

\* C10 as stated: for every Multipart that holds a Multipart as one of its
\* parts, serializing and parsing yields a parent with as many parts, and
\* the bytes of the child part, parsed again, yield the nested parts in
\* order with the same headers and bodies.
NestingAsStated ==
    /\ (op = "parse" /\ \E i \in 1..Len(m.parts) : IsNested(i))
       => err = "ok" /\ Len(parsed.parts) = Len(m.parts)
    /\ (op = "parseNested" /\ IsNested(nestedOf))
       => err = "ok" /\ SameParts(nested.parts, m.parts[nestedOf].parts)

\* C10 amended: the same, for every Multipart none of whose parts holds,
\* serialized, CRLF "--" and the parent's boundary, whose child holds no
\* part that, serialized, holds CRLF "--" and the child's boundary, and
\* whose parts' and child's parts' header values neither begin nor end
\* with white space.
Nesting ==
    /\ (/\ op = "parse"
        /\ \E i \in 1..Len(m.parts) : IsNested(i)
        /\ NoCollision(m)
        /\ \A i \in 1..Len(m.parts) : TrimmedValues(m.parts[i]))
       => err = "ok" /\ Len(parsed.parts) = Len(m.parts)
    /\ (/\ op = "parseNested"
        /\ IsNested(nestedOf)
        /\ NoCollision(m)
        /\ NoCollision(m.parts[nestedOf])
        /\ \A i \in 1..Len(m.parts) : TrimmedValues(m.parts[i])
        /\ \A j \in 1..Len(m.parts[nestedOf].parts) :
              TrimmedValues(m.parts[nestedOf].parts[j]))
       => err = "ok" /\ SameParts(nested.parts, m.parts[nestedOf].parts)

\* the child of two parts was parsed again out of the parsed parent
NestingWitness ==
    /\ op = "parseNested"
    /\ err = "ok"
    /\ IsNested(nestedOf)
    /\ NoCollision(m)
    /\ Len(m.parts[nestedOf].parts) = 2
    /\ SameParts(nested.parts, m.parts[nestedOf].parts)

(***************************************************************************)
(* C4: writes through the exposed references.                              *)
(***************************************************************************)
\* C4: a write through a reference the Multipart exposes or was given
\* cannot desynchronize the derived state: if headers["Content-Type"]
\* equals the value derived from mediaType and boundary before the write,
\* it does after it.
WritesKeepHeaderDerived ==
    [][(HeaderDerived /\ op' \in {"writeBoundary", "writeHeaders"})
       => HeaderDerived']_vars

(***************************************************************************)
(* C6: the errors of Multipart.part and Multipart.parse.                   *)
(***************************************************************************)
\* the header <<name, value>> pairs of what was given
GivenLines ==
    IF input.kind = "data" THEN input.lines ELSE input.part.headers

\* whether what was given has a Content-Type header, and one with a
\* boundary parameter
GivenContentType ==
    \E i \in 1..Len(GivenLines) :
        GivenLines[i][1] \in {CONTENT_TYPE, content_type}

GivenBoundaryParam ==
    \E i \in 1..Len(GivenLines) :
        /\ GivenLines[i][1] \in {CONTENT_TYPE, content_type}
        /\ Contains(GivenLines[i][2],
                    <<98, 111, 117, 110, 100, 97, 114, 121, 61>>)

\* C6: Multipart.part(p) and Multipart.parse(data) fail with SyntaxError
\* when the part has no Content-Type header or that header has no boundary
\* parameter, and in every other case return a Multipart built by
\* parseBody on the part's serialized bytes with the media type and the
\* boundary of the header.
FormatErrorOrMultipart ==
    op \in {"parse", "part"}
    => IF ~GivenContentType \/ ~GivenBoundaryParam
       THEN err = "SyntaxError"
       ELSE /\ err = "ok"
            /\ parsed.headers # <<>>
            /\ \E bytes \in {IF input.kind = "part" THEN out
                              ELSE ComponentBytes(ComponentParse(out).val)} :
                  parsed = parseBody(bytes, parsed.boundary,
                                     parsed.mediaType).val

(***************************************************************************)
(* C7, C8, C9: delimiters in a body.                                       *)
(***************************************************************************)
\* the 1-based places where CRLF "--" boundary stands in data
Occurrences(data, b) ==
    {k \in 1..(Len(data) - Len(b) - 3) :
        SubSeq(data, k, k + Len(b) + 3) = DelimiterOf(b)}

\* the place of the first byte at or after j that is neither space nor
\* tab, or Len(data) + 1
AfterBlanks(data, j) ==
    CHOOSE e \in j..(Len(data) + 1) :
        /\ \A i \in j..(e - 1) : data[i] \in {32, 9}
        /\ e <= Len(data) => data[e] \notin {32, 9}

\* whether CRLF stands in data at place j
LineBreakAt(data, j) ==
    j + 1 <= Len(data) /\ data[j] = 13 /\ data[j + 1] = 10

\* the occurrence at k is followed, before any CRLF, by a byte that is
\* neither space nor tab
LookAlikeAt(data, b, k) ==
    LET e == AfterBlanks(data, k + Len(b) + 4)
    IN  e <= Len(data) /\ ~LineBreakAt(data, e)

\* the occurrence at k has the form of a closing delimiter line
ClosingFormAt(data, b, k) ==
    LET d == k + Len(b) + 4
    IN  /\ d + 1 <= Len(data)
        /\ data[d] = 45
        /\ data[d + 1] = 45
        /\ LineBreakAt(data, AfterBlanks(data, d + 2))

\* every occurrence of CRLF "--" boundary in the bytes of p is a look-alike
OnlyLookAlikes(p, b) ==
    \A k \in Occurrences(ComponentBytes(p), b) :
        LookAlikeAt(ComponentBytes(p), b, k)

NoClosingForm(p, b) ==
    \A k \in Occurrences(ComponentBytes(p), b) :
        ~ClosingFormAt(ComponentBytes(p), b, k)

\* whether body begins with prefix
BeginsWith(body, prefix) ==
    Len(prefix) <= Len(body) /\ SubSeq(body, 1, Len(prefix)) = prefix

\* every part given is the part got at its place, whole: none is cut and
\* none is added before the closing delimiter; with no delimiter in the
\* epilogue the parts got are the parts given
PartsKept ==
    /\ err = "ok"
    /\ Len(parsed.parts) >= Len(input.parts)
    /\ \A i \in 1..Len(input.parts) :
          /\ parsed.parts[i].headers = input.parts[i].headers
          /\ BeginsWith(parsed.parts[i].body, input.parts[i].body)
    /\ ~Contains(input.epilogue, DelimiterOf(ScanBoundary))
       => /\ Len(parsed.parts) = Len(input.parts)
          /\ \A i \in 1..Len(input.parts) :
                parsed.parts[i].body = input.parts[i].body

\* C7: an opening or closing delimiter followed by any run of spaces and
\* tabs before its CRLF is recognized as a delimiter, and parseBody yields
\* the same parts (headers and bodies) as for the same body without that
\* padding.
PaddingTolerated ==
    op = "parseUnpadded" => err = "ok" /\ parsed.parts = nested.parts

\* C8 as stated: an occurrence of CRLF "--" boundary inside a part that is
\* followed, before any CRLF, by a byte that is neither space nor tab does
\* not end the part, does not start a new part, and stays in the body.
LookAlikeKeptAsStated ==
    (/\ op = "parseBody"
     /\ \A i \in 1..Len(input.parts) :
           OnlyLookAlikes(input.parts[i], ScanBoundary))
    => PartsKept

\* C8 amended: the same, for an occurrence that has not the form of a
\* closing delimiter line (CRLF "--" boundary "--", spaces and tabs, CRLF).
LookAlikeKept ==
    (/\ op = "parseBody"
     /\ \A i \in 1..Len(input.parts) :
           /\ OnlyLookAlikes(input.parts[i], ScanBoundary)
           /\ NoClosingForm(input.parts[i], ScanBoundary))
    => PartsKept

\* a part whose body holds CRLF "--a" SP HT "q" was parsed, and is the
\* first of two parts
LookAlikeKeptWitness ==
    /\ op = "parseBody"
    /\ Len(input.parts) = 2
    /\ Occurrences(input.parts[1].body, ScanBoundary) # {}
    /\ OnlyLookAlikes(input.parts[1], ScanBoundary)
    /\ NoClosingForm(input.parts[1], ScanBoundary)
    /\ parsed.parts[1].body = input.parts[1].body

\* C9: for a body made of a preamble, parts separated by opening
\* delimiters, a closing delimiter and an epilogue, parsing yields exactly
\* the parts between the first opening delimiter and the closing
\* delimiter; no byte after the closing delimiter appears in a part or
\* produces one.
EpilogueIgnored ==
    (/\ op = "parseBody"
     /\ \A i \in 1..Len(input.parts) :
           Occurrences(ComponentBytes(input.parts[i]), ScanBoundary) = {})
    => /\ err = "ok"
       /\ Len(parsed.parts) = Len(input.parts)
       /\ \A i \in 1..Len(input.parts) :
             /\ parsed.parts[i].headers = input.parts[i].headers
             /\ parsed.parts[i].body = input.parts[i].body

(***************************************************************************)
(* C11: the round trip of a Part.                                          *)
(***************************************************************************)
\* no header key or value of p holds CRLF and no key holds ':'
PlainHeaders(p) ==
    \A i \in 1..Len(p.headers) :
        /\ ~Contains(p.headers[i][1], CRLF)
        /\ ~Contains(p.headers[i][2], CRLF)
        /\ COLON \notin {p.headers[i][1][j] : j \in 1..Len(p.headers[i][1])}

\* C11 as stated: for every Part p whose header keys and values hold no
\* CRLF and whose keys hold no ':', Part.parse(p.bytes()).bytes() equals
\* p.bytes().
PartRoundTripAsStated ==
    (op = "componentParse" /\ PlainHeaders(parsed))
    => err = "ok" /\ ComponentBytes(nested) = out

\* C11 amended: the same, for a Part none of whose header values begins or
\* ends with white space that String.prototype.trim removes.
PartRoundTrip ==
    (/\ op = "componentParse"
     /\ PlainHeaders(parsed)
     /\ TrimmedValues(parsed))
    => err = "ok" /\ ComponentBytes(nested) = out

\* a Component with two headers and a body that holds an empty line was
\* serialized and parsed
PartRoundTripWitness ==
    /\ op = "componentParse"
    /\ parsed.type = "Component"
    /\ Len(parsed.headers) = 2
    /\ Contains(parsed.body, CRLF \o CRLF)
    /\ PlainHeaders(parsed)
    /\ TrimmedValues(parsed)
    /\ ComponentBytes(nested) = out

(***************************************************************************)
(* C12: the empty part.                                                    *)
(***************************************************************************)
\* p is a part with no header and no body, whose bytes() is CRLF
IsEmptyPart(p) ==
    /\ p.type = "Component"
    /\ p.headers = <<>>
    /\ p.body = <<>>
    /\ ComponentBytes(p) = CRLF

\* C12: a Multipart holding one part with no headers and an empty body,
\* serialized and parsed, and serialized and parsed again, yields exactly
\* one part whose bytes() is CRLF, with empty headers and empty body.
EmptyPartIdempotent ==
    (m.parts = <<MkComponent(<<>>, <<>>)>>)
    => /\ op = "parse"
          => err = "ok" /\ Len(parsed.parts) = 1
             /\ IsEmptyPart(parsed.parts[1])
       /\ op = "parseAgain"
          => err = "ok" /\ Len(nested.parts) = 1
             /\ IsEmptyPart(nested.parts[1])

\* a Multipart of one empty part and a boundary that is quoted was
\* serialized and parsed twice
EmptyPartIdempotentWitness ==
    /\ m.parts = <<MkComponent(<<>>, <<>>)>>
    /\ boundaryShouldBeQuoted(m.boundary)
    /\ op = "parseAgain"
    /\ Len(nested.parts) = 1
    /\ IsEmptyPart(nested.parts[1])

(***************************************************************************)
(* C13: the layout of the body.                                            *)
(***************************************************************************)
\* "--" b CRLF p.bytes() CRLF for each part in order, then "--" b "--" CRLF
RECURSIVE LayoutOf(_, _)
LayoutOf(b, parts) ==
    IF parts = <<>> THEN <<45, 45>> \o b \o <<45, 45, 13, 10>>
    ELSE <<45, 45>> \o b \o <<13, 10>> \o PartBytes(Head(parts)).val
         \o <<13, 10>> \o LayoutOf(b, Tail(parts))

\* C13: for a valid boundary b and parts p1..pn (n >= 0), Multipart.body
\* is the concatenation, in part order, of "--" b CRLF pi.bytes() CRLF for
\* each part, followed by "--" b "--" CRLF; with zero parts it is exactly
\* "--" b "--" CRLF.
BodyLayout ==
    (/\ op = "body"
     /\ RuleValid(m.boundary)
     /\ \A i \in 1..Len(m.parts) : PartBytes(m.parts[i]).kind = "ok")
    => /\ err = "ok"
       /\ out = LayoutOf(m.boundary, m.parts)
       /\ m.parts = <<>>
          => out = <<45, 45>> \o m.boundary \o <<45, 45, 13, 10>>

\* the body of a Multipart of two parts, the first a nested Multipart, was
\* read
BodyLayoutWitness ==
    /\ op = "body"
    /\ err = "ok"
    /\ Len(m.parts) = 2
    /\ m.parts[1].type = "Multipart"
    /\ out = LayoutOf(m.boundary, m.parts)

(***************************************************************************)
(* C14, C15: what parseBody returns for any buffer.                        *)
(***************************************************************************)
\* data holds, at the 0-based index k, CRLF "--" b, then spaces and tabs
\* only, then CRLF
TerminatedAt(data, b, k) ==
    /\ k >= 0
    /\ k + Len(b) + 4 <= Len(data)
    /\ SubSeq(data, k + 1, k + Len(b) + 4) = DelimiterOf(b)
    /\ LineBreakAt(data, AfterBlanks(data, k + Len(b) + 5))

\* the 0-based index just past the CRLF that terminates the delimiter at k
EndOfDelimiter(data, b, k) == AfterBlanks(data, k + Len(b) + 5) + 1

\* C14: parseBody is total: for every byte buffer and every boundary,
\* including boundaries that violate the validity rule, it returns a
\* Multipart and never fails.
ParseBodyTotal ==
    op = "parseBuffer" => err = "ok" /\ parsed.type = "Multipart"

\* every byte range pushed lies between a terminated opening delimiter
\* line and a terminated opening or closing delimiter line
BetweenDelimiters ==
    \A i \in 1..Len(segments) :
        /\ \E k \in 0..(Len(out) - 1) :
              /\ TerminatedAt(out, input.boundary, k)
              /\ EndOfDelimiter(out, input.boundary, k) = segments[i].from
        /\ \/ TerminatedAt(out, input.boundary, segments[i].to)
           \/ TerminatedAt(out, input.boundary \o <<45, 45>>,
                           segments[i].to)

\* C15: parseBody emits a part only for a byte range that is preceded by
\* a terminated opening delimiter line and followed by a terminated
\* opening or closing delimiter line: a buffer with no delimiter yields
\* zero parts, and when no further delimiter follows the last opening
\* delimiter, scanning stops without error and returns exactly the parts
\* already collected.
OnlyDelimitedParts ==
    op = "parseBuffer"
    => /\ err = "ok"
       /\ BetweenDelimiters
       /\ Len(parsed.parts) = Len(segments)
       /\ \A i \in 1..Len(segments) :
             parsed.parts[i] = ComponentParse(segments[i].bytes).val
       /\ (\A k \in 0..(Len(out) - 1) :
              ~TerminatedAt(out, input.boundary, k))
          => parsed.parts = <<>>

(***************************************************************************)
(* C16: parse, serialize, parse.                                           *)
(***************************************************************************)
\* C16: the order of parts is preserved through parse, serialize, parse:
\* for every buffer and valid boundary, parsing the buffer, serializing
\* the result and parsing it again yields the same number of parts in the
\* same order with the same serialized bytes as the first parse.
OrderKept ==
    (op = "parseAgain" /\ RuleValid(parsed.boundary))
    => /\ err = "ok"
       /\ Len(nested.parts) = Len(parsed.parts)
       /\ \A i \in 1..Len(parsed.parts) :
             ComponentBytes(nested.parts[i]) = ComponentBytes(parsed.parts[i])

(***************************************************************************)
(* C17, C18: the entries of formData().                                    *)
(***************************************************************************)
\* whether the Content-Disposition of part carries the form-data marker
\* and a name that is not empty
NamedFormData(part) ==
    /\ HeadersHas(part.headers, content_disposition)
    /\ With(parseContentDisposition(
                HeadersGet(part.headers, content_disposition)),
            LAMBDA params :
                /\ params.formData
                /\ params.name # NULL
                /\ params.name # <<>>)

\* the entry of a part: a File when a filename parameter is present, text
\* otherwise
EntryOf(part) ==
    With(parseContentDisposition(
             HeadersGet(part.headers, content_disposition)),
         LAMBDA params :
             IF params.filename # NULL
             THEN FileEntry(params.name, part.body, params.filename,
                            HeadersGet(part.headers, content_type))
             ELSE TextEntry(params.name, part.body))

RECURSIVE EntriesOf(_)
EntriesOf(parts) ==
    IF parts = <<>> THEN <<>>
    ELSE IF NamedFormData(Head(parts))
    THEN <<EntryOf(Head(parts))>> \o EntriesOf(Tail(parts))
    ELSE EntriesOf(Tail(parts))

\* C17: the instance method formData() includes exactly the parts whose
\* Content-Disposition carries the form-data marker and a non-empty name:
\* a part with no Content-Disposition, without the form-data token, or
\* with a missing or empty name contributes no entry, and every other part
\* contributes one entry in part order, a File when a filename parameter
\* is present and text otherwise.
FormDataOfNamedParts ==
    op = "formData" => err = "ok" /\ out = EntriesOf(m.parts)

\* C18: for every FormData, converting it with the static
\* Multipart.formData and back with the instance formData() yields the
\* same entries in the same order, each string entry with its name and
\* value and each file entry with its name, file name, media type and
\* bytes.
FormDataRoundTrip ==
    /\ op = "staticFormData" => err = "ok"
    /\ op = "formData" /\ input.kind = "formData"
       => err = "ok" /\ out = input.formData

(***************************************************************************)
(* C19, C20: findBoundaryBounds finds the first terminated delimiter, and  *)
(* the scan ends.                                                          *)
(***************************************************************************)
\* the 0-based indices from the first start on where a terminated
\* delimiter stands
Genuine ==
    {k \in input.start..(Len(out) - 1) :
        TerminatedAt(out, input.boundary, k)}

\* C19: findBoundaryBounds(data, boundary, start) returns (s, e) exactly
\* when s is the smallest index >= start at which data holds CRLF "--"
\* boundary followed by zero or more space/tab bytes and then CRLF, with e
\* the index just past that CRLF; it returns not-found exactly when no
\* such index exists, for any number of consecutive or overlapping
\* false-positive candidates before the genuine delimiter.
FirstTerminated ==
    op = "found"
    => IF Genuine = {} THEN bounds = NULL
       ELSE \E s \in Genuine :
               /\ \A k \in Genuine : s <= k
               /\ bounds = <<s, EndOfDelimiter(out, input.boundary, s)>>

\* the genuine delimiter was found behind a false candidate that it
\* overlaps
FirstTerminatedWitness ==
    /\ op = "found"
    /\ bounds # NULL
    /\ \E k \in input.start..(bounds[1] - 1) :
          /\ (k + 1) \in Occurrences(out, input.boundary)
          /\ ~TerminatedAt(out, input.boundary, k)
          /\ bounds[1] < k + Len(input.boundary) + 4

\* C20: every false-positive retry in findBoundaryBounds restarts at a
\* search position strictly greater than the previous one, every
\* iteration of the parseBody loop moves its cursor strictly forward, and
\* parseBody and findBoundaryBounds finish on every buffer and every
\* boundary, the empty boundary included: the loop of parseBody is left
\* and findBoundaryBounds returns.
ScanTerminates ==
    /\ [][(op = "find" /\ op' = "find") => start' > start]_vars
    /\ [][(op = "loop" /\ op' = "loop") => start' > start]_vars
    /\ <>(op \in {"exit", "found"})

\* parseBody finished on the empty boundary after an iteration, or
\* findBoundaryBounds after a retry
ScanTerminatesWitness ==
    \/ /\ op = "parseBuffer"
       /\ input.boundary = <<>>
       /\ segments # <<>>
    \/ /\ op = "found"
       /\ start > input.start

(***************************************************************************)
(* C21: findSequenceIndex.                                                 *)
(***************************************************************************)
\* the indices from input.start on at which input.sequence stands whole
\* in input.data
Stands ==
    {i \in 0..Len(input.data) :
        /\ i >= input.start
        /\ i + Len(input.sequence) <= Len(input.data)
        /\ SubSeq(input.data, i + 1, i + Len(input.sequence))
              = input.sequence}

\* C21: findSequenceIndex(haystack, needle, start) returns the first index
\* i >= start such that haystack[i..i+len(needle)) equals needle, or -1
\* when there is none; a start outside [0, len(haystack)) yields -1;
\* needles of every length up to and including len(haystack) are
\* supported.
FindsFirstIndex ==
    op = "findSequenceIndex"
    => IF input.start < 0 \/ input.start >= Len(input.data) THEN out = -1
       ELSE IF Stands = {} THEN out = -1
       ELSE out \in Stands /\ \A i \in Stands : out <= i

\* a sequence as long as the data was found, and a start behind a first
\* occurrence found the second
FindsFirstIndexWitness ==
    /\ op = "findSequenceIndex"
    /\ \/ /\ Len(input.sequence) = Len(input.data)
          /\ Len(input.data) > 1
          /\ out = 0
       \/ /\ input.start = 1
          /\ out = 2
          /\ Len(input.sequence) = 2
          /\ SubSeq(input.data, 1, 2) = input.sequence

(***************************************************************************)
(* C22, C23, C24: the header-parameter parser, character by character.     *)
(***************************************************************************)
\* the loop of parseHeaderParams reads char as a character of a value
ReadsInValue(char) ==
    /\ op = "params"
    /\ op' = "params"
    /\ input.s[start + 1] = char
    /\ ~out.readingKey

\* C22: once a value has begun unquoted, every later '"' in that value is
\* appended as a literal character and never toggles quote mode; a '"'
\* toggles quote mode only when it is the first content of the value or
\* closes a quote that is open.
QuoteLiteralOnceBegun ==
    [][ReadsInValue(QUOTE)
       => /\ (out.currentValue # <<>> /\ ~out.insideQuotes)
             => /\ out'.currentValue = out.currentValue \o <<QUOTE>>
                /\ ~out'.insideQuotes
          /\ (out'.insideQuotes # out.insideQuotes)
             => (out.insideQuotes \/ out.currentValue = <<>>)]_vars

\* C23: spaces between '=' and the first content of a value are not part
\* of the value, and every space that occurs after the value's content
\* has begun is preserved in the value.
SpacesKeptOnceBegun ==
    [][ReadsInValue(SP)
       => /\ (out.currentValue = <<>> /\ ~out.valueHasBegun
               /\ ~out.escaping)
             => out'.currentValue = <<>>
          /\ out.currentValue # <<>>
             => out'.currentValue = out.currentValue \o <<SP>>]_vars

\* every key of the map is trimmed and not empty, and an input that is
\* one key without '=' is mapped to the empty string
KeysFlushed ==
    /\ \A i \in 1..Len(out.params) :
          /\ out.params[i][1] # <<>>
          /\ out.params[i][1] = Trim(out.params[i][1])
    /\ (/\ \A i \in 1..Len(input.s) : input.s[i] \in {97, SP}
        /\ Trim(input.s) # <<>>)
       => out.params = <<<<Trim(input.s), <<>>>>>>

\* C24 as stated: for every input string s that does not end inside an
\* open quoted value, parseHeaderParams(s) equals parseHeaderParams(s +
\* ";"), with the key trimmed, an empty key dropped and a key without '='
\* mapped to the empty string.
EndFlushesAsSemicolonAsStated ==
    (op = "parseHeaderParams" /\ ~out.last.insideQuotes)
    => /\ out.params = parseHeaderParams(input.s \o <<SEMICOLON>>)
       /\ KeysFlushed

\* C24: for every input string s that ends neither inside an open quoted
\* value nor with a backslash that still waits for the character it
\* escapes, parseHeaderParams(s) equals parseHeaderParams(s + ";"), with
\* the key trimmed, an empty key dropped and a key without '=' mapped to
\* the empty string.
EndFlushesAsSemicolon ==
    (op = "parseHeaderParams" /\ ~out.last.insideQuotes
     /\ ~out.last.escaping)
    => /\ out.params = parseHeaderParams(input.s \o <<SEMICOLON>>)
       /\ KeysFlushed

\* the input ended in a pair that was not yet stored: a key with spaces
\* around it and a value
EndFlushesAsSemicolonWitness ==
    /\ op = "parseHeaderParams"
    /\ ~out.last.insideQuotes
    /\ ~out.last.escaping
    /\ ~out.last.readingKey
    /\ out.last.currentValue # <<>>
    /\ out.last.currentKey # Trim(out.last.currentKey)
    /\ out.params # <<>>

(***************************************************************************)
(* C26: no delimiter line inside a part.                                   *)
(***************************************************************************)
\* C26: no segment that parseBody turns into a part contains a complete
\* terminated opening delimiter line (CRLF "--" boundary, optional spaces
\* and tabs, CRLF) for the same boundary; in particular two delimiter
\* lines with zero bytes between them do not make the second delimiter
\* part of a part's content.
NoDelimiterInPart ==
    \A i \in 1..Len(segments) :
        \A k \in segments[i].from..(segments[i].to - 1) :
            ~(/\ TerminatedAt(out, input.boundary, k)
              /\ EndOfDelimiter(out, input.boundary, k) <= segments[i].to)

(***************************************************************************)
(* C28: the Content-Type header read back.                                 *)
(***************************************************************************)
\* C28: the generated Content-Type header decodes back to its inputs: for
\* every Multipart whose boundary is a string of ASCII bytes (valid or
\* not) and whose mediaType contains no ';', extracting media type and
\* boundary from headers["Content-Type"] with the Content-Type
\* decomposition returns exactly that mediaType and that boundary.
ContentTypeDecodes ==
    (\A i \in 1..Len(m.mediaType) : m.mediaType[i] # 59)
    => parseContentType(HeadersGet(m.headers, content_type))
          = [mediaType |-> m.mediaType, boundary |-> m.boundary]

(***************************************************************************)
(* C29: the validity error over the whole tree.                            *)
(***************************************************************************)
\* whether p is a Multipart whose own boundary obeys the rule and that
\* holds, at any depth, a Multipart whose boundary does not
MasksInvalid(p) ==
    /\ p.type = "Multipart"
    /\ RuleValid(p.boundary)
    /\ \E i \in 1..Len(p.parts) : AnyInvalidBoundary(p.parts[i])

\* C29: bytes() and body of a Multipart raise the RangeError if and only
\* if its own boundary or the boundary of a Multipart nested at any depth
\* in its parts is invalid; a valid outer boundary never masks an invalid
\* nested one and no partial output is returned.
ValidityCoversTree ==
    op \in {"body", "bytes"}
    => /\ MasksInvalid(m) => err = "RangeError"
       /\ err = "RangeError" => (AnyInvalidBoundary(m) /\ out = <<>>)
       /\ err # "RangeError"
          => /\ err = "ok"
             /\ ~AnyInvalidBoundary(m)
             /\ out # <<>>

\* bytes() raised the error for a valid boundary around a Multipart of a
\* valid boundary around a Multipart of an invalid one
ValidityCoversTreeWitness ==
    /\ op = "bytes"
    /\ err = "RangeError"
    /\ RuleValid(m.boundary)
    /\ \E i \in 1..Len(m.parts) : MasksInvalid(m.parts[i])

(***************************************************************************)
(* C30: Multipart.part and the headers of the part.                        *)
(***************************************************************************)
\* parseBody(p.body, b) for the part given and the boundary parameter b of
\* its Content-Type
BodyParsed ==
    parseBody(PartBody(input.part).val,
              parseContentType(
                  HeadersGet(input.part.headers, content_type)).boundary,
              NULL)

\* C30: Multipart.part(p) depends on p's headers only through
\* Content-Type: for every part p with a Content-Type that has a boundary
\* parameter b, the parts of Multipart.part(p) equal the parts of
\* parseBody(p.body, b), so no header line of the wrapping part is ever
\* taken for a delimiter or ends up inside a part.
PartReadsBodyOnly ==
    (/\ op = "part"
     /\ HeadersHas(input.part.headers, content_type)
     /\ parseContentType(
            HeadersGet(input.part.headers, content_type)).boundary # NULL)
    => /\ err = BodyParsed.kind
       /\ err = "ok" => parsed.parts = BodyParsed.val.parts

(***************************************************************************)
(* C25, C27: Component.parse.                                              *)
(***************************************************************************)
\* the indices at which CRLF CRLF stands in data
BlankLines(data) ==
    {i \in 0..(Len(data) - 4) : SubSeq(data, i + 1, i + 4) = CRLF \o CRLF}

FirstBlankLine(data) ==
    CHOOSE i \in BlankLines(data) : \A k \in BlankLines(data) : i <= k

StartsWithCRLF(data) == Len(data) >= 2 /\ SubSeq(data, 1, 2) = CRLF

\* the key and the value of a header line, if it has them
HasKey(line) ==
    /\ \E i \in 1..Len(line) : line[i] = COLON
    /\ Trim(Slice(line, 0, IndexOf(line, COLON))) # <<>>

KeyOf(line) == Trim(Slice(line, 0, IndexOf(line, COLON)))
ValueOf(line) == Trim(SliceFrom(line, IndexOf(line, COLON) + 1))

\* the headers of the lines: a line without ':' or with an empty key is
\* skipped
RECURSIVE HeadersOfLines(_, _)
HeadersOfLines(lines, headers) ==
    IF lines = <<>> THEN headers
    ELSE IF ~HasKey(Head(lines)) THEN HeadersOfLines(Tail(lines), headers)
    ELSE HeadersOfLines(Tail(lines),
             HeadersAppend(headers, KeyOf(Head(lines)),
                           ValueOf(Head(lines))))

\* the lines of the header block of data that holds a CRLF CRLF
BlockLines(data) == SplitCRLF(Slice(data, 0, FirstBlankLine(data)))

EveryByteAccounted ==
    (op = "Component.parse" /\ out.kind = "ok")
    => \E k \in 0..(Len(input.data) - 2) :
          /\ SubSeq(input.data, k + 1, k + 2) = CRLF
          /\ out.val.body = SliceFrom(input.data, k + 2)
          /\ out.val.headers =
                HeadersOfLines(SplitCRLF(Slice(input.data, 0, k)), <<>>)

=============================================================================
